---- MODULE Spec2Model ----
(***************************************************************************)
(* Model of the universal property commands generated by the macro         *)
(* define_universal_commands! (editor/src/command/universal.rs):           *)
(* SetPropertyCommand, AddCollectionItemCommand and                        *)
(* RemoveCollectionItemCommand acting on one reflective entity.            *)
(*                                                                         *)
(* The entity has a scalar field "s" of type A and a field "items" of type *)
(* Vec<elem>; "items[0]" addresses the first element of the collection and *)
(* "nope" addresses nothing.  Option::None is the value None.  A second    *)
(* entity of the same shape stands for the rest of the object graph.       *)
(***************************************************************************)
EXTENDS Integers, Sequences, FiniteSets, TLC

\* ------------------------------------------------------------------ bounds
MaxCmds == 2        \* commands that are ever constructed
MaxIndex == 2       \* largest index a RemoveItem command is built with
MaxDepth == 3       \* commands the undo/redo stack holds
MaxPos == 1         \* farthest position a navmesh vertex is dragged to

\* ------------------------------------------------------------------ values
None == "None"
TypeA == {"a1", "a2", "a3", "a4", "a5"}
TypeB == {"b1"}
Values == TypeA \cup TypeB
TypeOf(v) == IF v \in TypeA THEN "A" ELSE "B"

Paths == {"s", "items", "items[0]", "nope"}
SetPaths == {"s", "items[0]", "nope"}        \* paths Set commands are built with
CollPaths == {"items", "items[0]"}           \* paths AddItem/RemoveItem commands are built with
SetValues == {"a5", "b1"}
AddValues == {"a4", "b1"}
InitItems == {<< >>, <<"a1", "a2", "a3">>}
Handles == {"h1", "h2"}

VARIABLES
    graph,      \* the entity of handle h1:
                \* [s |-> value of type A, items |-> Vec<elem>, elem |-> type]
    others,     \* the rest of the object graph: the entity of handle h2
    cmds,       \* the constructed commands, in construction order
    top,        \* command stack: cmds[1..top] are executed
    hist,       \* command stack history: per command, the graph around its first execute
    clean,      \* command stack history: every do_command so far succeeded
    last,       \* the last execute/revert call: command, operation, outcome, log
                \* lines, the graph and slot it started from, and the same for
                \* the call before it when that was a call of the same command
    panicked,   \* the process aborted in a panic
    change,     \* factory: the change description and handle it is given
    made,       \* factory: what it returned
    named,      \* the latest name() call: the command asked and the String
    navmesh_present, \* the graph has a NavigationalMesh at self.navmesh
    vertices,   \* navmesh.vertices(): the position of each vertex
    selection,  \* editor_scene.selection
    drag_context, \* EditNavmeshMode::drag_context
    plane_kind, \* EditNavmeshMode::plane_kind
    pressed,    \* the left mouse button is held down
    sent,       \* the messages the latest handler sent, in order
    ev,         \* the latest handler call and what it returned
    discarded,  \* selection-discard commands sent since the drag began
    drag_start, \* the vertex positions at the mouse-down that began the drag
    scene,      \* ragdoll wizard: the scene graph, handle -> node
    preset,     \* RagdollWizard::preset: the handle of each bone
    rag_sent,   \* the messages the latest wizard call sent to the dispatcher
    rag_built,  \* the handles of the nodes the latest wizard call spawned
    rag_ev      \* the latest UI message the wizard handled

cmdVars == <<graph, others, cmds, top, hist, clean, last, panicked, change, made, named>>
navVars == <<navmesh_present, vertices, selection, drag_context, plane_kind,
             pressed, sent, ev, discarded, drag_start>>
ragVars == <<scene, preset, rag_sent, rag_built, rag_ev>>
vars == <<cmdVars, navVars, ragVars>>

\* ------------------------------------------------- Reflect (fyrox-core)
\* Path resolution against the current shape of the entity.
resolve_path_mut(g, path) ==
    CASE path = "s" -> [found |-> TRUE, list |-> FALSE, type |-> "A"]
      [] path = "items" -> [found |-> TRUE, list |-> TRUE, type |-> "VecA"]
      [] path = "items[0]" ->
            [found |-> Len(g.items) > 0, list |-> FALSE, type |-> g.elem]
      [] OTHER -> [found |-> FALSE, list |-> FALSE, type |-> "-"]

ReadField(g, path) ==
    CASE path = "s" -> g.s
      [] path = "items[0]" -> g.items[1]
      [] OTHER -> None

\* Field write that drops the rest of the collection when it sets an element.
WriteField_Truncates(g, path, v) ==
    CASE path = "s" -> [g EXCEPT !.s = v]
      [] path = "items[0]" -> [g EXCEPT !.items = <<v>>]
      [] OTHER -> g

WriteField(g, path, v) ==
    CASE path = "s" -> [g EXCEPT !.s = v]
      [] path = "items[0]" -> [g EXCEPT !.items[1] = v]
      [] OTHER -> g

\* Reflect::set_field_by_path: replace the field and hand back the old value,
\* or hand back the value that could not be applied.
set_field_by_path(g, path, value) ==
    LET r == resolve_path_mut(g, path) IN
    IF ~r.found THEN [tag |-> "InvalidPath", value |-> value, graph |-> g]
    ELSE IF r.type # TypeOf(value)
         THEN [tag |-> "InvalidValue", value |-> value, graph |-> g]
         ELSE [tag |-> "Ok", value |-> ReadField(g, path),
               graph |-> WriteField(g, path, value)]

\* ReflectList for Vec<elem>.
reflect_push(list, elem, item) ==
    IF TypeOf(item) = elem
    THEN [tag |-> "Ok", list |-> Append(list, item), item |-> None]
    ELSE [tag |-> "Err", list |-> list, item |-> item]

reflect_pop(list) ==
    IF Len(list) > 0
    THEN [item |-> list[Len(list)], list |-> SubSeq(list, 1, Len(list) - 1)]
    ELSE [item |-> None, list |-> list]

reflect_remove(list, index) ==
    IF index < Len(list)
    THEN [item |-> list[index + 1],
          list |-> SubSeq(list, 1, index) \o SubSeq(list, index + 2, Len(list))]
    ELSE [item |-> None, list |-> list]

\* Vec::insert panics when index > len; the downcast is tried first.
reflect_insert(list, elem, index, item) ==
    IF TypeOf(item) # elem THEN [tag |-> "Err", list |-> list, item |-> item]
    ELSE IF index > Len(list) THEN [tag |-> "Panic", list |-> list, item |-> item]
    ELSE [tag |-> "Ok",
          list |-> SubSeq(list, 1, index) \o <<item>> \o SubSeq(list, index + 1, Len(list)),
          item |-> None]

\* ------------------------------------------------------- call results
\* What one execute/revert call leaves behind.
Result(g, slot, outcome, log) ==
    [graph |-> g, slot |-> slot, outcome |-> outcome, log |-> log]

\* Option::unwrap on None.
Panic(g, slot) == Result(g, slot, "Panic", << >>)

\* --------------------------------------------------- universal commands
\* A command: kind, handle of the target entity, path, the Option slot (value
\* / item), the index of a RemoveItem command, the call the undo/redo driver
\* makes next, and the outcome of the command's latest call.
Cmd(kind, handle, path, slot, index) ==
    [kind |-> kind, handle |-> handle, path |-> path, slot |-> slot,
     index |-> index, next |-> "execute", res |-> "none"]

SetPropertyCommand_new(handle, path, value) == Cmd("Set", handle, path, value, 0)
AddCollectionItemCommand_new(handle, path, item) == Cmd("Add", handle, path, item, 0)
RemoveCollectionItemCommand_new(handle, path, index) ==
    Cmd("Remove", handle, path, None, index)

\* format!: the String is kept as the sequence of its pieces.
\* SetPropertyCommand::name with the value pending in the slot in the text.
SetPropertyCommand_name_ShowsValue(cmd) ==
    <<"Set ", cmd.path, " property", cmd.slot>>

SetPropertyCommand_name(cmd) == <<"Set ", cmd.path, " property">>

AddCollectionItemCommand_name(cmd) == <<"Add item to ", cmd.path, " collection">>

RemoveCollectionItemCommand_name(cmd) ==
    <<"Remove collection ", cmd.path, " item ", ToString(cmd.index)>>

name(cmd) ==
    CASE cmd.kind = "Set" -> SetPropertyCommand_name(cmd)
      [] cmd.kind = "Add" -> AddCollectionItemCommand_name(cmd)
      [] cmd.kind = "Remove" -> RemoveCollectionItemCommand_name(cmd)

\* name() has not been called.
Unnamed == [idx |-> 0, text |-> << >>]

\* What the factory returns: Some(command) or None.
Some(cmd) == [state |-> "Some", cmd |-> cmd]
NoCommand == [state |-> "None", cmd |-> Cmd("none", "h1", "nope", None, 0)]

\* The change descriptions of the inspector, by PropertyAction.
PropertyChanged(action, path, value, index) ==
    [action |-> action, path |-> path, value |-> value, index |-> index]

Changes ==
    {PropertyChanged("Modify", p, v, 0) : p \in Paths, v \in Values}
    \cup {PropertyChanged("AddItem", p, v, 0) : p \in Paths, v \in Values}
    \cup {PropertyChanged("RemoveItem", p, None, n) : p \in Paths, n \in 0..MaxIndex}
    \cup {PropertyChanged("Revert", p, None, 0) : p \in Paths}

\* Factory with the AddItem arm building a SetPropertyCommand.
make_command_AddItemAsSet(handle, property_changed) ==
    CASE property_changed.action = "Modify" ->
            Some(SetPropertyCommand_new(handle, property_changed.path,
                                        property_changed.value))
      [] property_changed.action = "AddItem" ->
            Some(SetPropertyCommand_new(handle, property_changed.path,
                                        property_changed.value))
      [] property_changed.action = "RemoveItem" ->
            Some(RemoveCollectionItemCommand_new(handle, property_changed.path,
                                                 property_changed.index))
      [] property_changed.action = "Revert" -> NoCommand

\* $name: the factory function from a change description to a command.
make_command(handle, property_changed) ==
    CASE property_changed.action = "Modify" ->
            Some(SetPropertyCommand_new(handle, property_changed.path,
                                        property_changed.value))
      [] property_changed.action = "AddItem" ->
            Some(AddCollectionItemCommand_new(handle, property_changed.path,
                                              property_changed.value))
      [] property_changed.action = "RemoveItem" ->
            Some(RemoveCollectionItemCommand_new(handle, property_changed.path,
                                                 property_changed.index))
      [] property_changed.action = "Revert" -> NoCommand

\* $entity_getter: the entity a handle stands for.
entity_getter(handle) == IF handle = "h1" THEN graph ELSE others

NoSuchPropertyMsg == "There is no such property!"
InvalidPathMsg == "Failed to set property! Invalid path!"
IncompatibleMsg == "Failed to set property! Incompatible types!"
PushMismatchMsg == "Failed to push item to collection. Type mismatch!"
NotACollectionMsg == "Property is not a collection!"
PopFailedMsg == "Failed to pop item from collection!"
InsertMismatchMsg == "Failed to insert item to collection. Type mismatch!"

\* try_modify_property with the Err arm logging nothing.
try_modify_property_Silent(cmd, g, onField) ==
    IF resolve_path_mut(g, cmd.path).found
    THEN onField
    ELSE Result(g, cmd.slot, "NoSuchProperty", << >>)

\* try_modify_property: run onField when the path resolves, log otherwise.
try_modify_property(cmd, g, onField) ==
    IF resolve_path_mut(g, cmd.path).found
    THEN onField
    ELSE Result(g, cmd.slot, "NoSuchProperty", <<NoSuchPropertyMsg>>)

\* as_list_mut with the else arm logging nothing.
as_list_mut_Silent(cmd, g, onList) ==
    IF resolve_path_mut(g, cmd.path).list
    THEN onList
    ELSE Result(g, cmd.slot, "NotACollection", << >>)

\* field.as_list_mut with the `if let Some(list) ... else` of the four
\* collection handlers.
as_list_mut(cmd, g, onList) ==
    IF resolve_path_mut(g, cmd.path).list
    THEN onList
    ELSE Result(g, cmd.slot, "NotACollection", <<NotACollectionMsg>>)

WriteList(g, list) == [g EXCEPT !.items = list]

\* swap with `self.value = Some(old_value)` replaced by keeping the new value.
swap_KeepsNewValue(cmd, g) ==
    IF cmd.slot = None THEN Panic(g, None)
    ELSE LET r == set_field_by_path(g, cmd.path, cmd.slot) IN
         CASE r.tag = "Ok" -> Result(r.graph, cmd.slot, "Ok", << >>)
           [] r.tag = "InvalidPath" ->
                Result(r.graph, r.value, "InvalidPath", <<InvalidPathMsg>>)
           [] r.tag = "InvalidValue" ->
                Result(r.graph, r.value, "InvalidValue", <<IncompatibleMsg>>)

\* swap without `self.value = Some(value)` in the Err arm.
swap_DropsFailedValue(cmd, g) ==
    IF cmd.slot = None THEN Panic(g, None)
    ELSE LET r == set_field_by_path(g, cmd.path, cmd.slot) IN
         CASE r.tag = "Ok" -> Result(r.graph, r.value, "Ok", << >>)
           [] r.tag = "InvalidPath" ->
                Result(r.graph, None, "InvalidPath", <<InvalidPathMsg>>)
           [] r.tag = "InvalidValue" ->
                Result(r.graph, None, "InvalidValue", <<IncompatibleMsg>>)

\* swap with the InvalidValue arm logging nothing.
swap_SilentOnInvalidValue(cmd, g) ==
    IF cmd.slot = None THEN Panic(g, None)
    ELSE LET r == set_field_by_path(g, cmd.path, cmd.slot) IN
         CASE r.tag = "Ok" -> Result(r.graph, r.value, "Ok", << >>)
           [] r.tag = "InvalidPath" ->
                Result(r.graph, r.value, "InvalidPath", <<InvalidPathMsg>>)
           [] r.tag = "InvalidValue" ->
                Result(r.graph, r.value, "InvalidValue", << >>)

\* SetPropertyCommand::swap
\* swap that remembers a failed path resolution instead of resolving again.
swap_CachesResolution(cmd, g) ==
    IF cmd.slot = None THEN Panic(g, None)
    ELSE LET r == IF cmd.res = "InvalidPath"
                  THEN [tag |-> "InvalidPath", value |-> cmd.slot, graph |-> g]
                  ELSE set_field_by_path(g, cmd.path, cmd.slot) IN
         CASE r.tag = "Ok" -> Result(r.graph, r.value, "Ok", << >>)
           [] r.tag = "InvalidPath" ->
                Result(r.graph, r.value, "InvalidPath", <<InvalidPathMsg>>)
           [] r.tag = "InvalidValue" ->
                Result(r.graph, r.value, "InvalidValue", <<IncompatibleMsg>>)

swap(cmd, g) ==
    IF cmd.slot = None THEN Panic(g, None)
    ELSE LET r == set_field_by_path(g, cmd.path, cmd.slot) IN
         CASE r.tag = "Ok" -> Result(r.graph, r.value, "Ok", << >>)
           [] r.tag = "InvalidPath" ->
                Result(r.graph, r.value, "InvalidPath", <<InvalidPathMsg>>)
           [] r.tag = "InvalidValue" ->
                Result(r.graph, r.value, "InvalidValue", <<IncompatibleMsg>>)

SetPropertyCommand_execute(cmd, g) == swap(cmd, g)

\* revert that leaves the field alone instead of calling swap.
SetPropertyCommand_revert_Noop(cmd, g) == Result(g, cmd.slot, "Ok", << >>)

SetPropertyCommand_revert(cmd, g) == swap(cmd, g)

\* execute without `self.item = Some(item)` after a failed push.
AddCollectionItemCommand_execute_DropsItem(cmd, g) ==
    try_modify_property(cmd, g,
        as_list_mut(cmd, g,
            IF cmd.slot = None THEN Panic(g, None)
            ELSE LET r == reflect_push(g.items, g.elem, cmd.slot) IN
                 IF r.tag = "Err"
                 THEN Result(g, None, "TypeMismatch", <<PushMismatchMsg>>)
                 ELSE Result(WriteList(g, r.list), None, "Ok", << >>)))

AddCollectionItemCommand_execute(cmd, g) ==
    try_modify_property(cmd, g,
        as_list_mut(cmd, g,
            IF cmd.slot = None THEN Panic(g, None)
            ELSE LET r == reflect_push(g.items, g.elem, cmd.slot) IN
                 IF r.tag = "Err"
                 THEN Result(g, r.item, "TypeMismatch", <<PushMismatchMsg>>)
                 ELSE Result(WriteList(g, r.list), None, "Ok", << >>)))

\* revert with reflect_pop() replaced by reflect_remove(0).
AddCollectionItemCommand_revert_RemovesHead(cmd, g) ==
    try_modify_property(cmd, g,
        as_list_mut(cmd, g,
            LET r == reflect_remove(g.items, 0) IN
            IF r.item # None
            THEN Result(WriteList(g, r.list), r.item, "Ok", << >>)
            ELSE Result(g, cmd.slot, "CollectionUnderflow", <<PopFailedMsg>>)))

\* revert with the else arm of `if let Some(item) = list.reflect_pop()` empty.
AddCollectionItemCommand_revert_SilentPop(cmd, g) ==
    try_modify_property(cmd, g,
        as_list_mut(cmd, g,
            LET r == reflect_pop(g.items) IN
            IF r.item # None
            THEN Result(WriteList(g, r.list), r.item, "Ok", << >>)
            ELSE Result(g, cmd.slot, "CollectionUnderflow", << >>)))

\* revert with the popped item dropped instead of stored in self.item.
AddCollectionItemCommand_revert_DropsItem(cmd, g) ==
    try_modify_property(cmd, g,
        as_list_mut(cmd, g,
            LET r == reflect_pop(g.items) IN
            IF r.item # None
            THEN Result(WriteList(g, r.list), cmd.slot, "Ok", << >>)
            ELSE Result(g, cmd.slot, "CollectionUnderflow", <<PopFailedMsg>>)))

AddCollectionItemCommand_revert(cmd, g) ==
    try_modify_property(cmd, g,
        as_list_mut(cmd, g,
            LET r == reflect_pop(g.items) IN
            IF r.item # None
            THEN Result(WriteList(g, r.list), r.item, "Ok", << >>)
            ELSE Result(g, cmd.slot, "CollectionUnderflow", <<PopFailedMsg>>)))

\* execute with the removed item dropped instead of stored in self.value.
RemoveCollectionItemCommand_execute_DropsItem(cmd, g) ==
    try_modify_property(cmd, g,
        as_list_mut(cmd, g,
            LET r == reflect_remove(g.items, cmd.index) IN
            Result(WriteList(g, r.list), cmd.slot,
                   IF r.item = None THEN "CollectionUnderflow" ELSE "Ok", << >>)))

RemoveCollectionItemCommand_execute(cmd, g) ==
    try_modify_property(cmd, g,
        as_list_mut(cmd, g,
            LET r == reflect_remove(g.items, cmd.index) IN
            Result(WriteList(g, r.list), r.item,
                   IF r.item = None THEN "CollectionUnderflow" ELSE "Ok", << >>)))

\* revert with reflect_insert(self.index, ..) replaced by reflect_push(..).
RemoveCollectionItemCommand_revert_Appends(cmd, g) ==
    try_modify_property(cmd, g,
        as_list_mut(cmd, g,
            IF cmd.slot = None THEN Panic(g, None)
            ELSE LET r == reflect_push(g.items, g.elem, cmd.slot) IN
                 IF r.tag = "Ok"
                 THEN Result(WriteList(g, r.list), None, "Ok", << >>)
                 ELSE Result(g, r.item, "TypeMismatch", <<InsertMismatchMsg>>)))

\* revert without `self.value = Some(item)` after a rejected insert.
RemoveCollectionItemCommand_revert_DropsRejected(cmd, g) ==
    try_modify_property(cmd, g,
        as_list_mut(cmd, g,
            IF cmd.slot = None THEN Panic(g, None)
            ELSE LET r == reflect_insert(g.items, g.elem, cmd.index, cmd.slot) IN
                 CASE r.tag = "Ok" -> Result(WriteList(g, r.list), None, "Ok", << >>)
                   [] r.tag = "Err" ->
                        Result(g, None, "TypeMismatch", <<InsertMismatchMsg>>)
                   [] r.tag = "Panic" -> Panic(g, None)))

RemoveCollectionItemCommand_revert(cmd, g) ==
    try_modify_property(cmd, g,
        as_list_mut(cmd, g,
            IF cmd.slot = None THEN Panic(g, None)
            ELSE LET r == reflect_insert(g.items, g.elem, cmd.index, cmd.slot) IN
                 CASE r.tag = "Ok" -> Result(WriteList(g, r.list), None, "Ok", << >>)
                   [] r.tag = "Err" ->
                        Result(g, r.item, "TypeMismatch", <<InsertMismatchMsg>>)
                   [] r.tag = "Panic" -> Panic(g, None)))

execute(cmd, g) ==
    CASE cmd.kind = "Set" -> SetPropertyCommand_execute(cmd, g)
      [] cmd.kind = "Add" -> AddCollectionItemCommand_execute(cmd, g)
      [] cmd.kind = "Remove" -> RemoveCollectionItemCommand_execute(cmd, g)

revert(cmd, g) ==
    CASE cmd.kind = "Set" -> SetPropertyCommand_revert(cmd, g)
      [] cmd.kind = "Add" -> AddCollectionItemCommand_revert(cmd, g)
      [] cmd.kind = "Remove" -> RemoveCollectionItemCommand_revert(cmd, g)

\* ------------------------------------------------------------ behaviour
NoPrev == [outcome |-> "none", preGraph |-> [s |-> "a1", items |-> << >>, elem |-> "A"],
           preSlot |-> None]
NoCall == [idx |-> 0, op |-> "none", outcome |-> "none", log |-> << >>,
           preGraph |-> [s |-> "a1", items |-> << >>, elem |-> "A"], preSlot |-> None,
           was |-> "none", prev |-> NoPrev]

(***************************************************************************)
(* The navmesh editing mode.  The navmesh is one triangle; a position is   *)
(* one coordinate, and a drag moves vertices by the offsets the gizmo      *)
(* computes from the mouse.                                                *)
(***************************************************************************)
Vertices == {0, 1, 2}
Positions == 0..MaxPos
Offsets == {0, 1}
Planes == {"X", "Y"}

\* NavmeshEntity.
Vertex(i) == [kind |-> "Vertex", a |-> i, b |-> i]
Edge(a, b) == [kind |-> "Edge", a |-> a, b |-> b]

\* Selection: Selection::Navmesh(entities), or any other kind of selection.
Navmesh(entities) == [nav |-> TRUE, entities |-> entities]
NotNavmesh == [nav |-> FALSE, entities |-> << >>]
NavmeshSelection_empty == Navmesh(<< >>)

Selections ==
    {NotNavmesh, NavmeshSelection_empty, Navmesh(<<Vertex(0)>>),
     Navmesh(<<Edge(0, 1)>>), Navmesh(<<Edge(0, 1), Vertex(2)>>),
     Navmesh(<<Edge(0, 1), Edge(1, 2)>>)}

\* NavmeshSelection::unique_vertices: every vertex of the selected entities,
\* once, here in ascending order.
UniqueSet(sel) ==
    UNION {{sel.entities[k].a, sel.entities[k].b} : k \in DOMAIN sel.entities}

unique_vertices(sel) ==
    LET S == UniqueSet(sel) IN
    CHOOSE q \in [1..Cardinality(S) -> S] :
        \A i, j \in 1..Cardinality(S) : i < j => q[i] < q[j]

\* DragContext, and None for no drag.
NoDrag ==
    [kind |-> "None", initial_positions |-> << >>, vertices |-> << >>,
     opposite_edge |-> Edge(0, 0)]
MoveSelection(initial_positions) ==
    [kind |-> "MoveSelection", initial_positions |-> initial_positions,
     vertices |-> << >>, opposite_edge |-> Edge(0, 0)]
EdgeDuplication(draft, opposite_edge) ==
    [kind |-> "EdgeDuplication", initial_positions |-> << >>,
     vertices |-> draft, opposite_edge |-> opposite_edge]

is_edge_duplication(dc) == dc.kind = "EdgeDuplication"

\* The commands and messages the mode sends to the dispatcher.
ChangeSelectionCommand(new, old) ==
    [type |-> "ChangeSelectionCommand", new |-> new, old |-> old]
MoveNavmeshVertexCommand(vertex, old, new) ==
    [type |-> "MoveNavmeshVertexCommand", vertex |-> vertex, old |-> old, new |-> new]
AddNavmeshEdgeCommand(va, vb, opposite_edge, select) ==
    [type |-> "AddNavmeshEdgeCommand", edge |-> <<va, vb>>,
     opposite_edge |-> opposite_edge, select |-> select]
DeleteNavmeshVertexCommand(vertex) ==
    [type |-> "DeleteNavmeshVertexCommand", vertex |-> vertex]
ConnectNavmeshEdgesCommand(ea, eb) ==
    [type |-> "ConnectNavmeshEdgesCommand", edges |-> <<ea, eb>>]
CommandGroup(commands) == [type |-> "CommandGroup", commands |-> commands]

\* No handler has been called.
NoEvent ==
    [handler |-> "none", shift |-> FALSE, offset |-> 0, key |-> "none",
     pick |-> "none", handled |-> FALSE, panic |-> FALSE]

Event(handler, shift, offset, key, handled) ==
    [handler |-> handler, shift |-> shift, offset |-> offset, key |-> key,
     pick |-> "none", handled |-> handled, panic |-> FALSE]

\* No drag is under way.
NoStart == [v \in Vertices |-> 0]

\* The mode after EditNavmeshMode::new, nothing selected.
NavInit ==
    /\ navmesh_present = TRUE
    /\ vertices = [v \in Vertices |-> 0]
    /\ selection = NotNavmesh
    /\ drag_context = NoDrag
    /\ plane_kind = "X"
    /\ pressed = FALSE
    /\ sent = << >>
    /\ ev = NoEvent
    /\ discarded = 0
    /\ drag_start = NoStart

(***************************************************************************)
(* Ragdoll wizard (utils/ragdoll.rs).                                      *)
(***************************************************************************)

\* Handle::NONE, the default handle.
NONE == 0

\* The bones of the preset, in the order of the struct's fields.
Bones ==
    <<"Hips", "LeftUpLeg", "LeftLeg", "LeftFoot", "RightUpLeg", "RightLeg",
      "RightFoot", "Spine", "Spine1", "Spine2", "LeftShoulder", "LeftArm",
      "LeftForeArm", "LeftHand", "RightShoulder", "RightArm", "RightForeArm",
      "RightHand", "Neck", "Head">>

BoneNames == {Bones[i] : i \in DOMAIN Bones}

\* The handle of the scene node of a bone, whether or not the node exists.
BoneHandle(b) == CHOOSE i \in DOMAIN Bones : Bones[i] = b

\* graph.get_root() and editor_scene.scene_content_root.
get_root == Len(Bones) + 1
scene_content_root == Len(Bones) + 2

\* A node of the scene graph; `limbs` is the limb tree of a ragdoll node,
\* kept as the physical bone of each bone.
SceneNode(node_name, parent) == [name |-> node_name, parent |-> parent, limbs |-> << >>]

\* The bones the scene may lose and get back.
Removable == {"Hips", "Spine", "LeftFoot"}

\* A scene holding the roots and the bones in `present`.
Skeleton(present) ==
    [h \in {get_root, scene_content_root} \cup {BoneHandle(b) : b \in present} |->
        IF h = get_root THEN SceneNode("Root", NONE)
        ELSE IF h = scene_content_root THEN SceneNode("SceneContent", get_root)
        ELSE SceneNode(Bones[h], scene_content_root)]

\* RagdollPreset::default: every bone is Handle::NONE.
RagdollPreset_default == [b \in BoneNames |-> NONE]

\* Graph::try_get: the handle is that of a node of the graph.
try_get(g, handle) == handle \in DOMAIN g

\* Pool::spawn: a node gets a handle no node of the graph has, live or
\* stale; the n-th node a call spawns gets the n-th handle above those of
\* the graph `g` the call began with, so that Graph::try_get of a handle of
\* the preset is decided by `g`.
Fresh(g, n) == (CHOOSE h \in DOMAIN g : \A o \in DOMAIN g : o <= h) + n

\* No node was built.
NotBuilt == [nodes |-> << >>, handle |-> NONE]

\* A rigid body built with one collider as its child, after `spawned` nodes;
\* Graph::add_node links the body to the root of the graph.
RigidBodyBuilder_build(g, spawned, body_name, collider_name) ==
    LET collider == Fresh(g, spawned + 1)
        body == Fresh(g, spawned + 2)
    IN  [nodes |-> (collider :> SceneNode(collider_name, body))
                       @@ (body :> SceneNode(body_name, get_root)),
         handle |-> body]

\* Graph::link_nodes on a node that was just built.
link_nodes(built, parent) ==
    [built EXCEPT !.nodes[built.handle].parent = parent]

\* make_sphere that leaves the body under the root of the graph.
make_sphere_Unlinked(from, body_name, ragdoll, g, spawned) ==
    IF try_get(g, from)
    THEN RigidBodyBuilder_build(g, spawned, body_name, "SphereCollider")
    ELSE NotBuilt

make_sphere(from, body_name, ragdoll, g, spawned) ==
    IF try_get(g, from)
    THEN link_nodes(RigidBodyBuilder_build(g, spawned, body_name, "SphereCollider"),
                    ragdoll)
    ELSE NotBuilt

make_oriented_capsule(from, to, body_name, ragdoll, g, spawned) ==
    IF try_get(g, from) /\ try_get(g, to)
    THEN link_nodes(RigidBodyBuilder_build(g, spawned, body_name, "CapsuleCollider"),
                    ragdoll)
    ELSE NotBuilt

make_cuboid(from, body_name, ragdoll, g, spawned) ==
    IF try_get(g, from)
    THEN link_nodes(RigidBodyBuilder_build(g, spawned, body_name, "CuboidCollider"),
                    ragdoll)
    ELSE NotBuilt

\* try_make_ball_joint and try_make_hinge_joint: a joint between two built
\* bodies, linked to the ragdoll.
try_make_joint(body1, body2, joint_name, ragdoll, g, spawned) ==
    IF body1 # NONE /\ body2 # NONE
    THEN LET joint == Fresh(g, spawned + 1)
         IN  [nodes |-> (joint :> SceneNode(joint_name, ragdoll)), handle |-> joint]
    ELSE NotBuilt

\* The limbs create_and_send_command makes, in its order.
Capsule(bone, to, body_name) ==
    [shape |-> "capsule", bone |-> bone, to |-> to, name |-> body_name]
Sphere(bone, body_name) ==
    [shape |-> "sphere", bone |-> bone, to |-> bone, name |-> body_name]
Cuboid(bone, body_name) ==
    [shape |-> "cuboid", bone |-> bone, to |-> bone, name |-> body_name]

Limbs ==
    <<Capsule("LeftUpLeg", "LeftLeg", "RagdollLeftUpLeg"),
      Capsule("LeftLeg", "LeftFoot", "RagdollLeftLeg"),
      Sphere("LeftFoot", "RagdollLeftFoot"),
      Capsule("RightUpLeg", "RightLeg", "RagdollRightUpLeg"),
      Capsule("RightLeg", "RightFoot", "RagdollRightLeg"),
      Sphere("RightFoot", "RagdollRightFoot"),
      Cuboid("Hips", "RagdollHips"),
      Cuboid("Spine", "RagdollSpine"),
      Cuboid("Spine1", "RagdollSpine1"),
      Cuboid("Spine2", "RagdollSpine2"),
      Capsule("LeftShoulder", "LeftArm", "RagdollLeftShoulder"),
      Capsule("LeftArm", "LeftForeArm", "RagdollLeftArm"),
      Capsule("LeftForeArm", "LeftHand", "RagdollLeftForeArm"),
      Sphere("LeftHand", "LeftHand"),
      Capsule("RightShoulder", "RightArm", "RagdollRightShoulder"),
      Capsule("RightArm", "RightForeArm", "RagdollRightArm"),
      Capsule("RightForeArm", "RightHand", "RagdollRightForeArm"),
      Sphere("RightHand", "RightHand"),
      Capsule("Neck", "Head", "RagdollNeck"),
      Sphere("Head", "RightHand")>>

\* The joints, in its order: the two limbs joined and the joint's name.
Joint(body1, body2, joint_name) ==
    [body1 |-> body1, body2 |-> body2, name |-> joint_name]

Joints ==
    <<Joint("LeftUpLeg", "Hips", "RagdollLeftUpLegHipsBallJoint"),
      Joint("LeftLeg", "LeftUpLeg", "RagdollLeftLegLeftUpLegHingeJoint"),
      Joint("LeftFoot", "LeftLeg", "RagdollLeftFootLeftLegHingeJoint"),
      Joint("RightUpLeg", "Hips", "RagdollLeftUpLegHipsBallJoint"),
      Joint("RightLeg", "RightUpLeg", "RagdollRightLegRightUpLegHingeJoint"),
      Joint("RightFoot", "RightLeg", "RagdollRightFootRightLegHingeJoint"),
      Joint("Spine", "Hips", "RagdollSpineHipsHingeJoint"),
      Joint("Spine1", "Spine", "RagdollSpine1SpineHingeJoint"),
      Joint("Spine2", "Spine1", "RagdollSpine2Spine1HingeJoint"),
      Joint("LeftShoulder", "Spine2", "RagdollSpine2LeftShoulderBallJoint"),
      Joint("LeftArm", "LeftShoulder", "RagdollLeftShoulderLeftArmBallJoint"),
      Joint("LeftForeArm", "LeftArm", "RagdollLeftArmLeftForeArmBallJoint"),
      Joint("LeftHand", "LeftForeArm", "RagdollLeftForeArmLeftHandBallJoint"),
      Joint("RightShoulder", "Spine2", "RagdollSpine2RightShoulderBallJoint"),
      Joint("RightArm", "RightShoulder", "RagdollRightShoulderRightArmBallJoint"),
      Joint("RightForeArm", "RightArm", "RagdollRightArmRightForeArmHingeJoint"),
      Joint("RightHand", "RightForeArm", "RagdollRightForeArmRightHandBallJoint"),
      Joint("Neck", "Spine2", "RagdollNeckSpine2BallJoint"),
      Joint("Head", "Neck", "RagdollHeadNeckBallJoint")>>

\* The k-th limb of the table, made from the bones of the preset `p` after
\* `spawned` nodes.
MakeLimb(k, p, ragdoll, g, spawned) ==
    LET limb == Limbs[k] IN
    IF limb.shape = "capsule"
    THEN make_oriented_capsule(p[limb.bone], p[limb.to], limb.name, ragdoll, g, spawned)
    ELSE IF limb.shape = "sphere"
    THEN make_sphere(p[limb.bone], limb.name, ragdoll, g, spawned)
    ELSE make_cuboid(p[limb.bone], limb.name, ragdoll, g, spawned)

\* The limbs in the order of the table, each after the ragdoll node and the
\* two nodes of every limb built before it.
MakeLimbs(p, ragdoll, g) ==
    LET is_built == [k \in DOMAIN Limbs |-> MakeLimb(k, p, ragdoll, g, 0).handle # NONE]
                        @@ << >>
    IN  [k \in DOMAIN Limbs |->
            MakeLimb(k, p, ragdoll, g,
                     1 + 2 * Cardinality({i \in 1..(k - 1) : is_built[i]}))] @@ << >>

\* The joints in the order of the table, each after the ragdoll node, the
\* limbs and every joint built before it.
MakeJoints(bodies, ragdoll, g, spawned) ==
    LET is_built == [k \in DOMAIN Joints |->
                        bodies[Joints[k].body1] # NONE /\ bodies[Joints[k].body2] # NONE]
                        @@ << >>
    IN  [k \in DOMAIN Joints |->
            try_make_joint(bodies[Joints[k].body1], bodies[Joints[k].body2],
                           Joints[k].name, ragdoll, g,
                           spawned + Cardinality({i \in 1..(k - 1) : is_built[i]}))]
            @@ << >>

\* The nodes of every element of `parts`, as one function.
NodesOf(parts) ==
    [h \in UNION {DOMAIN parts[k].nodes : k \in DOMAIN parts} |->
        parts[CHOOSE k \in DOMAIN parts : h \in DOMAIN parts[k].nodes].nodes[h]] @@ << >>

\* The nodes of `set` and every node below them.
RECURSIVE Descendants(_, _)
Descendants(g, set) ==
    LET more == {h \in DOMAIN g : g[h].parent \in set} \ set
    IN  IF more = {} THEN set ELSE Descendants(g, set \cup more)

\* Graph::take_reserve_sub_graph: the root and its descendants leave the
\* graph and become the sub-graph.
take_reserve_sub_graph(g, root) ==
    LET taken == Descendants(g, {root})
    IN  [graph |-> [h \in DOMAIN g \ taken |-> g[h]],
         sub_graph |-> [root |-> root, nodes |-> [h \in taken |-> g[h]],
                        parent |-> g[root].parent]]

\* The commands and the selection of the ragdoll's message.
AddModelCommand(sub_graph) == [type |-> "AddModelCommand", sub_graph |-> sub_graph]
GraphSelection_single_or_empty(handle) ==
    [nav |-> FALSE, entities |-> << >>,
     nodes |-> IF handle = NONE THEN << >> ELSE <<handle>>]
with_custom_name(group, custom_name) ==
    [type |-> group.type, commands |-> group.commands, name |-> custom_name]

\* create_and_send_command: what it leaves of the graph `g`, the message it
\* sends and the nodes it spawned.
create_and_send_command(p, g, sel) ==
    LET ragdoll == Fresh(g, 1)
        limbs == MakeLimbs(p, ragdoll, g)
        bodies == [b \in BoneNames |->
                      limbs[CHOOSE k \in DOMAIN Limbs : Limbs[k].bone = b].handle] @@ << >>
        limb_nodes == NodesOf(limbs)
        joints == MakeJoints(bodies, ragdoll, g, 1 + Cardinality(DOMAIN limb_nodes))
        g3 == g @@ (ragdoll :> [SceneNode("Ragdoll", scene_content_root)
                                   EXCEPT !.limbs = bodies])
                @@ limb_nodes @@ NodesOf(joints)
        taken == take_reserve_sub_graph(g3, ragdoll)
        group == <<AddModelCommand(taken.sub_graph),
                   ChangeSelectionCommand(GraphSelection_single_or_empty(ragdoll), sel)>>
    IN  [graph |-> taken.graph,
         sent |-> <<with_custom_name(CommandGroup(group), "Generate Ragdoll")>>,
         built |-> DOMAIN g3 \ DOMAIN g]

\* find_by_pattern: the first node, in the order of the search, whose name
\* contains the pattern; only "Spine" is contained in other bone names.
NameContains(pattern) ==
    IF pattern = "Spine" THEN <<"Spine", "Spine1", "Spine2">> ELSE <<pattern>>
find_by_pattern(g, pattern) ==
    LET found == SelectSeq(NameContains(pattern), LAMBDA b : try_get(g, BoneHandle(b)))
    IN  IF found = << >> THEN NONE ELSE BoneHandle(found[1])

\* The wizard after RagdollWizard::new, in a scene with the whole skeleton.
NoMessage ==
    [data |-> "none", destination |-> "none", field |-> "Hips", value |-> NONE,
     ui |-> "none"]
RagInit ==
    /\ scene = Skeleton(BoneNames)
    /\ preset = RagdollPreset_default
    /\ rag_sent = << >>
    /\ rag_built = {}
    /\ rag_ev = NoMessage

\* No change description has been handed to the factory.
NoChange == [handle |-> "h1", change |-> PropertyChanged("none", "nope", None, 0)]
Unmade == [state |-> "unmade", cmd |-> Cmd("none", "h1", "nope", None, 0)]

Init ==
    /\ graph \in {[s |-> "a1", items |-> it, elem |-> "A"] : it \in InitItems}
    /\ others = [s |-> "a2", items |-> <<"a1">>, elem |-> "A"]
    /\ cmds = << >>
    /\ top = 0
    /\ hist = << >>
    /\ clean = TRUE
    /\ last = NoCall
    /\ panicked = FALSE
    /\ change = NoChange
    /\ made = Unmade
    /\ named = Unnamed
    /\ NavInit
    /\ RagInit

Other(op) == IF op = "execute" THEN "revert" ELSE "execute"

\* The entity of `handle` becomes e; the other entity is not touched.
Put(handle, e) ==
    IF handle = "h1"
    THEN graph' = e /\ others' = others
    ELSE others' = e /\ graph' = graph

\* The state left by call `op` of command i with result r.
Called(i, op, r) ==
    /\ Put(cmds[i].handle, r.graph)
    /\ cmds' = [cmds EXCEPT ![i].slot = r.slot, ![i].next = Other(op),
                            ![i].res = r.outcome]
    /\ UNCHANGED <<change, made, named, navVars, ragVars>>
    /\ last' = [idx |-> i, op |-> op, outcome |-> r.outcome, log |-> r.log,
                preGraph |-> entity_getter(cmds[i].handle), preSlot |-> cmds[i].slot,
                was |-> cmds[i].res,
                prev |-> IF last.idx = i
                         THEN [outcome |-> last.outcome, preGraph |-> last.preGraph,
                               preSlot |-> last.preSlot]
                         ELSE NoPrev]
    /\ panicked' = (r.outcome = "Panic")

\* The factory builds a command; nothing runs yet.
Construct(cmd) ==
    /\ Len(cmds) < MaxCmds
    /\ cmds' = Append(cmds, cmd)
    /\ UNCHANGED <<graph, others, top, hist, clean, last, panicked, change, made, named, navVars, ragVars>>

NewSet(handle, path, value) ==
    /\ ~panicked
    /\ Construct(SetPropertyCommand_new(handle, path, value))

NewAddItem(handle, path, item) ==
    /\ ~panicked
    /\ Construct(AddCollectionItemCommand_new(handle, path, item))

NewRemoveItem(handle, path, index) ==
    /\ ~panicked
    /\ Construct(RemoveCollectionItemCommand_new(handle, path, index))

Callable(i, kind, op) ==
    /\ ~panicked
    /\ i \in 1..Len(cmds)
    /\ cmds[i].kind = kind
    /\ cmds[i].next = op

SetExecute(i) ==
    /\ Callable(i, "Set", "execute")
    /\ Called(i, "execute", SetPropertyCommand_execute(cmds[i], entity_getter(cmds[i].handle)))
    /\ UNCHANGED <<top, hist, clean>>

SetRevert(i) ==
    /\ Callable(i, "Set", "revert")
    /\ Called(i, "revert", SetPropertyCommand_revert(cmds[i], entity_getter(cmds[i].handle)))
    /\ UNCHANGED <<top, hist, clean>>

AddItemExecute(i) ==
    /\ Callable(i, "Add", "execute")
    /\ Called(i, "execute", AddCollectionItemCommand_execute(cmds[i], entity_getter(cmds[i].handle)))
    /\ UNCHANGED <<top, hist, clean>>

AddItemRevert(i) ==
    /\ Callable(i, "Add", "revert")
    /\ Called(i, "revert", AddCollectionItemCommand_revert(cmds[i], entity_getter(cmds[i].handle)))
    /\ UNCHANGED <<top, hist, clean>>

RemoveItemExecute(i) ==
    /\ Callable(i, "Remove", "execute")
    /\ Called(i, "execute", RemoveCollectionItemCommand_execute(cmds[i], entity_getter(cmds[i].handle)))
    /\ UNCHANGED <<top, hist, clean>>

RemoveItemRevert(i) ==
    /\ Callable(i, "Remove", "revert")
    /\ Called(i, "revert", RemoveCollectionItemCommand_revert(cmds[i], entity_getter(cmds[i].handle)))
    /\ UNCHANGED <<top, hist, clean>>

Next ==
    \/ \E p \in SetPaths, v \in SetValues : NewSet("h1", p, v)
    \/ \E p \in CollPaths, v \in AddValues : NewAddItem("h1", p, v)
    \/ \E n \in 0..MaxIndex : NewRemoveItem("h1", "items", n)
    \/ NewRemoveItem("h1", "items[0]", 0)
    \/ \E i \in 1..MaxCmds : SetExecute(i)
    \/ \E i \in 1..MaxCmds : SetRevert(i)
    \/ \E i \in 1..MaxCmds : AddItemExecute(i)
    \/ \E i \in 1..MaxCmds : AddItemRevert(i)
    \/ \E i \in 1..MaxCmds : RemoveItemExecute(i)
    \/ \E i \in 1..MaxCmds : RemoveItemRevert(i)

\* Each command of entity h1 is driven execute, revert, execute, ... while
\* other commands of the same entity run in between, in any order.
Spec == Init /\ [][Next]_vars

\* ------------------------------------------------ command stack driver
\* CommandStack::do_command: drop the undone commands, execute, push.
do_command(cmd) ==
    /\ top < MaxDepth
    /\ LET r == execute(cmd, entity_getter(cmd.handle)) IN
        /\ Put(cmd.handle, r.graph)
        /\ UNCHANGED <<change, made, named, navVars, ragVars>>
        /\ cmds' = Append(SubSeq(cmds, 1, top),
                          [cmd EXCEPT !.slot = r.slot, !.next = "revert",
                                      !.res = r.outcome])
        /\ hist' = Append(SubSeq(hist, 1, top),
                          [pre |-> entity_getter(cmd.handle), post |-> r.graph,
                           ok |-> (r.outcome = "Ok"), ctor |-> cmd.slot])
        /\ top' = top + 1
        /\ clean' = (r.outcome = "Ok")
        /\ last' = [idx |-> top + 1, op |-> "execute", outcome |-> r.outcome,
                    log |-> r.log, preGraph |-> entity_getter(cmd.handle),
                    preSlot |-> cmd.slot, was |-> "none",
                    prev |-> NoPrev]
        /\ panicked' = (r.outcome = "Panic")

DoSet(path, value) ==
    /\ ~panicked /\ clean
    /\ do_command(SetPropertyCommand_new("h1", path, value))

DoAddItem(path, item) ==
    /\ ~panicked /\ clean
    /\ do_command(AddCollectionItemCommand_new("h1", path, item))

DoRemoveItem(path, index) ==
    /\ ~panicked /\ clean
    /\ do_command(RemoveCollectionItemCommand_new("h1", path, index))

\* CommandStack::undo: revert the top command.
undo ==
    /\ ~panicked
    /\ clean
    /\ top > 0
    /\ Called(top, "revert", revert(cmds[top], entity_getter(cmds[top].handle)))
    /\ top' = top - 1
    /\ UNCHANGED <<hist, clean>>

\* CommandStack::redo: execute the command above the top again.
redo ==
    /\ ~panicked
    /\ clean
    /\ top < Len(cmds)
    /\ Called(top + 1, "execute",
              execute(cmds[top + 1], entity_getter(cmds[top + 1].handle)))
    /\ top' = top + 1
    /\ UNCHANGED <<hist, clean>>

NextStack ==
    \/ \E p \in SetPaths, v \in SetValues : DoSet(p, v)
    \/ \E p \in CollPaths, v \in AddValues : DoAddItem(p, v)
    \/ \E p \in CollPaths, n \in 0..MaxIndex : DoRemoveItem(p, n)
    \/ undo
    \/ redo

\* The commands are driven by one undo/redo stack, strictly LIFO, for as long
\* as every command pushed so far succeeded when it was first executed.
SpecStack == Init /\ [][NextStack]_vars

\* =============================================================== claims
\* The command of the last call, and what it was called on.
LastCmd == cmds[last.idx]
LastIs(kind, op) ==
    /\ last.idx \in 1..Len(cmds)
    /\ LastCmd.kind = kind
    /\ last.op = op
LastIsKind(kind) == LastIs(kind, "execute") \/ LastIs(kind, "revert")

\* The call before the last one was a call of the same command.
Consecutive == last.prev.outcome # "none"

\* Path `path` addresses a field of graph g that accepts value v.
Accepts(g, path, v) ==
    /\ path \in {"s", "items[0]"}
    /\ path = "items[0]" => Len(g.items) > 0
    /\ v \in Values
    /\ TypeOf(v) = IF path = "s" THEN "A" ELSE g.elem

\* Sequence `seq` without its k-th element / with x put in as its k-th element.
Without(seq, k) ==
    [j \in 1..(Len(seq) - 1) |-> IF j < k THEN seq[j] ELSE seq[j + 1]]
WithAt(seq, k, x) ==
    [j \in 1..(Len(seq) + 1) |->
        IF j < k THEN seq[j] ELSE IF j = k THEN x ELSE seq[j - 1]]

\* C1 - Set invertibility: a Set call on a field that holds v0, with a
\* type-compatible v1 pending, leaves the field at v1 and v0 in the slot (and
\* nothing else changed); the call of the same command that follows it
\* directly leaves the whole graph as it was before the first call, with v1
\* back in the slot - so every further call swaps the two again.
C1_SetInvertibility ==
    LastIsKind("Set") =>
        LET p == LastCmd.path IN
        /\ Accepts(last.preGraph, p, last.preSlot) =>
              /\ last.outcome = "Ok"
              /\ last.log = << >>
              /\ ReadField(graph, p) = last.preSlot
              /\ LastCmd.slot = ReadField(last.preGraph, p)
              /\ WriteField(graph, p, LastCmd.slot) = last.preGraph
        /\ (Consecutive /\ Accepts(last.prev.preGraph, p, last.prev.preSlot)) =>
              /\ last.outcome = "Ok"
              /\ graph = last.prev.preGraph
              /\ LastCmd.slot = last.prev.preSlot

C1_Witness ==
    /\ LastIs("Set", "revert")
    /\ LastCmd.path = "s"
    /\ Consecutive
    /\ last.prev.preGraph.s = "a1" /\ last.prev.preSlot = "a5"
    /\ last.preGraph.s = "a5" /\ last.preSlot = "a1"
    /\ graph.s = "a1" /\ LastCmd.slot = "a5"

\* C2 - RemoveItem duality: execute at an in-range index of a collection
\* removes exactly the item at that index (one item fewer, the others in
\* their order) and stores it in the slot; the revert that follows it
\* directly puts that item back at the same index, restoring the graph, and
\* empties the slot.
C2_RemoveItemDuality ==
    /\ LastIs("Remove", "execute") =>
          LET pre == last.preGraph.items
              n == LastCmd.index IN
          (LastCmd.path = "items" /\ n < Len(pre)) =>
              /\ last.outcome = "Ok"
              /\ Len(graph.items) = Len(pre) - 1
              /\ graph.items = Without(pre, n + 1)
              /\ LastCmd.slot = pre[n + 1]
              /\ graph.s = last.preGraph.s
    /\ LastIs("Remove", "revert") =>
          LET pre == last.prev.preGraph.items
              n == LastCmd.index IN
          (Consecutive /\ LastCmd.path = "items" /\ n < Len(pre)) =>
              /\ last.outcome = "Ok"
              /\ graph.items = WithAt(last.preGraph.items, n + 1, pre[n + 1])
              /\ graph = last.prev.preGraph
              /\ LastCmd.slot = None

C2_Witness ==
    /\ LastIs("Remove", "revert")
    /\ LastCmd.path = "items" /\ LastCmd.index = 1
    /\ Consecutive
    /\ last.prev.preGraph.items = <<"a1", "a2", "a3">>
    /\ last.preGraph.items = <<"a1", "a3">> /\ last.preSlot = "a2"
    /\ graph.items = <<"a1", "a2", "a3">>

\* C3 - AddItem duality: execute with a type-compatible item on a collection
\* of n items appends it (n+1 items, the first n unchanged); the revert that
\* follows it directly removes exactly the last item (n items, unchanged)
\* and puts that item back into the slot; a revert on a non-empty collection
\* always takes the tail item into the slot.
C3_AddItemDuality ==
    /\ LastIs("Add", "execute") =>
          LET pre == last.preGraph.items IN
          (LastCmd.path = "items" /\ last.preSlot \in TypeA) =>
              /\ last.outcome = "Ok"
              /\ Len(graph.items) = Len(pre) + 1
              /\ SubSeq(graph.items, 1, Len(pre)) = pre
              /\ graph.items[Len(pre) + 1] = last.preSlot
              /\ graph.s = last.preGraph.s
    /\ LastIs("Add", "revert") =>
          LET pre == last.preGraph.items IN
          /\ (LastCmd.path = "items" /\ Len(pre) > 0) =>
                /\ last.outcome = "Ok"
                /\ Len(graph.items) = Len(pre) - 1
                /\ graph.items = SubSeq(pre, 1, Len(pre) - 1)
                /\ LastCmd.slot = pre[Len(pre)]
                /\ graph.s = last.preGraph.s
          /\ (Consecutive /\ LastCmd.path = "items" /\ last.prev.preSlot \in TypeA) =>
                /\ last.outcome = "Ok"
                /\ graph = last.prev.preGraph
                /\ LastCmd.slot = last.prev.preSlot

C3_Witness ==
    /\ LastIs("Add", "revert")
    /\ LastCmd.path = "items"
    /\ Consecutive
    /\ last.prev.preGraph.items = <<"a1", "a2", "a3">> /\ last.prev.preSlot = "a4"
    /\ last.preGraph.items = <<"a1", "a2", "a3", "a4">> /\ last.preSlot = None
    /\ graph.items = <<"a1", "a2", "a3">> /\ LastCmd.slot = "a4"

\* C4 - undo/redo stack consistency: while every command pushed so far
\* succeeded when first executed, the graph after any undos and redos is the
\* graph recorded after the first execute of the topmost executed command
\* (the graph before the first command when all are undone), every undone
\* command holds its post-construction slot, and each undo and redo succeeds.
C4_UndoRedoConsistent ==
    clean =>
        /\ Len(hist) = Len(cmds)
        /\ top > 0 => graph = hist[top].post
        /\ (top = 0 /\ Len(hist) > 0) => graph = hist[1].pre
        /\ top = 0 => (graph.s = "a1" /\ graph.items \in InitItems)
        /\ \A j \in 1..Len(cmds) :
              /\ j > top => cmds[j].slot = hist[j].ctor
              /\ j > 1 => hist[j].pre = hist[j - 1].post
        /\ last.idx > 0 => last.outcome = "Ok"

C4_Witness ==
    /\ clean
    /\ top = 0
    /\ Len(cmds) = 3
    /\ cmds[1].kind = "Remove" /\ cmds[1].path = "items"
    /\ cmds[2].kind = "Add" /\ cmds[2].path = "items"
    /\ cmds[3].kind = "Set" /\ cmds[3].path = "items[0]"
    /\ LastIs("Remove", "revert")
    /\ hist[3].post # hist[1].pre
    /\ graph = hist[1].pre

\* C5 - the engine never aborts: no execute or revert call of a command that
\* is driven execute, revert, execute, ... panics.
C5_NeverPanics == ~panicked

\* C6 - a failed Set is a retained, repeatable no-op: a Set call whose path
\* does not resolve or whose value the field does not accept leaves the graph
\* unchanged, keeps the value in the slot and logs one error; the call of the
\* same command that follows it directly fails the same way with the same
\* graph and slot.
C6_FailedSetRetained ==
    LastIsKind("Set") =>
        LET p == LastCmd.path IN
        /\ (last.preSlot # None /\ ~Accepts(last.preGraph, p, last.preSlot)) =>
              /\ last.outcome \in {"InvalidPath", "InvalidValue"}
              /\ graph = last.preGraph
              /\ LastCmd.slot = last.preSlot
              /\ Len(last.log) = 1
              /\ last.log[1] \in {InvalidPathMsg, IncompatibleMsg}
        /\ (Consecutive /\ last.prev.outcome \in {"InvalidPath", "InvalidValue"}) =>
              /\ last.outcome = last.prev.outcome
              /\ graph = last.prev.preGraph
              /\ LastCmd.slot = last.prev.preSlot

C6_Witness ==
    /\ LastIs("Set", "revert")
    /\ Consecutive
    /\ last.prev.outcome = "InvalidValue"
    /\ last.outcome = "InvalidValue"
    /\ LastCmd.slot = "b1"
    /\ last.log = <<IncompatibleMsg>>

\* C7 - stale path safety: a call of any command kind whose path does not
\* resolve does not panic, logs exactly one error, and leaves the graph and
\* the command's slot as they were.
C7_StalePathSafe ==
    (last.idx \in 1..Len(cmds) /\ ~resolve_path_mut(last.preGraph, LastCmd.path).found) =>
        /\ last.outcome # "Panic"
        /\ ~panicked
        /\ Len(last.log) = 1
        /\ graph = last.preGraph
        /\ LastCmd.slot = last.preSlot

C7_Witness ==
    /\ LastIs("Add", "revert")
    /\ LastCmd.path = "items[0]"
    /\ last.preGraph.items = << >>
    /\ last.preSlot = "a4" /\ LastCmd.slot = "a4"
    /\ last.log = <<NoSuchPropertyMsg>>
    /\ \E i \in 1..Len(cmds) :
          cmds[i].kind = "Set" /\ cmds[i].path = "nope" /\ cmds[i].next = "revert"

\* C8 - type mismatch on push: AddItem.execute on a collection whose element
\* type differs from the pending item's type logs the type-mismatch error,
\* leaves the collection unchanged and keeps the item in the slot.
C8_PushMismatchRetained ==
    (LastIs("Add", "execute") /\ LastCmd.path = "items" /\ last.preSlot \in TypeB) =>
        /\ last.outcome = "TypeMismatch"
        /\ last.log = <<PushMismatchMsg>>
        /\ graph = last.preGraph
        /\ LastCmd.slot = last.preSlot

C8_Witness ==
    /\ LastIs("Add", "execute")
    /\ LastCmd.path = "items"
    /\ last.preSlot = "b1"
    /\ graph.items = <<"a1", "a2", "a3">>
    /\ last.outcome = "TypeMismatch"

\* The whole mutation a call of the last command makes when it applies.
WholeMutation ==
    LET c == LastCmd
        pre == last.preGraph
        l == pre.items IN
    CASE c.kind = "Set" -> WriteField(pre, c.path, last.preSlot)
      [] c.kind = "Add" /\ last.op = "execute" -> [pre EXCEPT !.items = Append(l, last.preSlot)]
      [] c.kind = "Add" /\ last.op = "revert" -> [pre EXCEPT !.items = SubSeq(l, 1, Len(l) - 1)]
      [] c.kind = "Remove" /\ last.op = "execute" -> [pre EXCEPT !.items = Without(l, c.index + 1)]
      [] c.kind = "Remove" /\ last.op = "revert" ->
            [pre EXCEPT !.items = WithAt(l, c.index + 1, last.preSlot)]

\* C9 - all-or-nothing mutation: every call either applies its whole replace,
\* push, pop, insert or remove, or leaves the graph exactly as it was; every
\* call that does not succeed leaves the graph as it was.
C9_AllOrNothing ==
    last.idx \in 1..Len(cmds) =>
        /\ last.outcome = "Ok" => graph = WholeMutation
        /\ last.outcome # "Ok" => graph = last.preGraph

C9_Witness ==
    /\ LastIs("Add", "revert")
    /\ last.outcome = "CollectionUnderflow"
    /\ graph = last.preGraph
    /\ \E i \in 1..Len(cmds) : cmds[i].kind = "Remove" /\ cmds[i].slot # None

\* C10 - Set pending-slot invariant: the slot of a Set command is never empty,
\* after construction and after every call whatever its outcome; after a
\* successful call it holds the value the field had before the call.
C10_SetSlotNeverEmpty ==
    /\ \A i \in 1..Len(cmds) : cmds[i].kind = "Set" => cmds[i].slot \in Values
    /\ (LastIsKind("Set") /\ last.outcome = "Ok") =>
          LastCmd.slot = ReadField(last.preGraph, LastCmd.path)

C10_Witness ==
    /\ LastIs("Set", "execute")
    /\ LastCmd.path = "items[0]"
    /\ last.outcome = "InvalidPath"
    /\ LastCmd.slot = "a5"
    /\ \E i \in 1..Len(cmds) : cmds[i].kind = "Set" /\ cmds[i].next = "execute"
                                /\ i # last.idx

\* C11 - RemoveItem.execute with an index that is out of range for the
\* resolved collection logs a removal failure, leaves the collection
\* unchanged and leaves the slot empty.
C11_OutOfRangeRemoveLogged ==
    (/\ LastIs("Remove", "execute")
     /\ LastCmd.path = "items"
     /\ LastCmd.index >= Len(last.preGraph.items)) =>
        /\ Len(last.log) >= 1
        /\ graph = last.preGraph
        /\ LastCmd.slot = None

\* C12 as claimed - AddItem.revert on a resolved, empty collection logs the
\* pop failure, leaves the collection unchanged and leaves the slot empty.
C12_PopFailureEmptiesSlot ==
    (/\ LastIs("Add", "revert")
     /\ LastCmd.path = "items"
     /\ last.preGraph.items = << >>) =>
        /\ last.log = <<PopFailedMsg>>
        /\ graph = last.preGraph
        /\ LastCmd.slot = None

\* C12 as amended - AddItem.revert on a resolved, empty collection logs the
\* pop failure and leaves the collection and the slot as they were (the slot
\* is empty exactly when it was empty before the call); on a non-empty
\* collection it stores the popped tail item in the slot.
C12_PopFailureKeepsSlot ==
    (LastIs("Add", "revert") /\ LastCmd.path = "items") =>
        LET pre == last.preGraph.items IN
        /\ pre = << >> =>
              /\ last.outcome = "CollectionUnderflow"
              /\ last.log = <<PopFailedMsg>>
              /\ graph = last.preGraph
              /\ LastCmd.slot = last.preSlot
        /\ pre # << >> =>
              /\ last.log = << >>
              /\ LastCmd.slot = pre[Len(pre)]

\* An AddItem command whose execute failed on a type mismatch is reverted on
\* the empty collection: the pop fails and the rejected item stays pending.
C12_Witness ==
    /\ LastIs("Add", "revert")
    /\ LastCmd.path = "items"
    /\ last.preGraph.items = << >>
    /\ last.log = <<PopFailedMsg>>
    /\ last.preSlot = "b1" /\ LastCmd.slot = "b1"

\* C14 - not-a-collection handling: execute and revert of AddItem and of
\* RemoveItem on a path that resolves to a field that is no collection log
\* exactly the one not-a-collection error and leave graph and slot as they
\* were.
C14_NotACollection ==
    (/\ LastIsKind("Add") \/ LastIsKind("Remove")
     /\ resolve_path_mut(last.preGraph, LastCmd.path).found
     /\ ~resolve_path_mut(last.preGraph, LastCmd.path).list) =>
        /\ last.outcome = "NotACollection"
        /\ last.log = <<NotACollectionMsg>>
        /\ graph = last.preGraph
        /\ LastCmd.slot = last.preSlot

C14_Witness ==
    /\ LastIs("Add", "execute")
    /\ LastCmd.path = "items[0]"
    /\ last.preGraph.items = <<"a1", "a2", "a3">>
    /\ last.log = <<NotACollectionMsg>>
    /\ LastCmd.slot = "a4"
    /\ \E i \in 1..Len(cmds) :
          /\ cmds[i].kind = "Remove" /\ cmds[i].path = "items[0]"
          /\ cmds[i].next = "execute" /\ i < last.idx

\* C17 - for a Set command execute and revert are the same operation: on
\* every Set command and graph that is reached both give the same graph, slot
\* and log, and what a call did is what the other call does from the same
\* command state and graph.
C17_SetExecuteIsRevert ==
    /\ \A i \in 1..Len(cmds) :
          cmds[i].kind = "Set" =>
              SetPropertyCommand_execute(cmds[i], graph)
                  = SetPropertyCommand_revert(cmds[i], graph)
    /\ LastIsKind("Set") =>
          LET before == [LastCmd EXCEPT !.slot = last.preSlot]
              twin == IF last.op = "execute"
                      THEN SetPropertyCommand_revert(before, last.preGraph)
                      ELSE SetPropertyCommand_execute(before, last.preGraph) IN
          /\ graph = twin.graph
          /\ LastCmd.slot = twin.slot
          /\ last.log = twin.log

C17_Witness ==
    /\ LastIs("Set", "execute")
    /\ LastCmd.path = "s"
    /\ last.outcome = "Ok"
    /\ graph.s = "a5" /\ LastCmd.slot = "a1"
    /\ SetPropertyCommand_revert([LastCmd EXCEPT !.slot = "a5"], last.preGraph).graph.s = "a5"

\* C20 - RemoveItem.revert cannot detect index shifts: whenever the path
\* resolves to a collection that accepts the captured item, revert inserts
\* the item at the index given at construction and logs nothing, whatever
\* other commands did to the collection since the execute.
C20_RevertInsertsAtFixedIndex ==
    (/\ LastIs("Remove", "revert")
     /\ LastCmd.path = "items"
     /\ last.preSlot \in TypeA) =>
        /\ last.outcome = "Ok"
        /\ last.log = << >>
        /\ graph.items = WithAt(last.preGraph.items, LastCmd.index + 1, last.preSlot)

\* The factory alone: it is handed one change description and one handle,
\* and the command it returns, if any, is kept for the undo/redo stack.
InitFactory ==
    /\ graph = [s |-> "a1", items |-> << >>, elem |-> "A"]
    /\ others = [s |-> "a2", items |-> <<"a1">>, elem |-> "A"]
    /\ cmds = << >>
    /\ top = 0
    /\ hist = << >>
    /\ clean = TRUE
    /\ last = NoCall
    /\ panicked = FALSE
    /\ change \in {[handle |-> h, change |-> pc] : h \in Handles, pc \in Changes}
    /\ made = Unmade
    /\ named = Unnamed
    /\ NavInit
    /\ RagInit

Factory ==
    /\ made = Unmade
    /\ made' = make_command(change.handle, change.change)
    /\ cmds' = IF made'.state = "Some" THEN Append(cmds, made'.cmd) ELSE cmds
    /\ UNCHANGED <<graph, others, top, hist, clean, last, panicked, change, named, navVars, ragVars>>

NextFactory == Factory

SpecFactory == InitFactory /\ [][NextFactory]_vars

(***************************************************************************)
(* C15  Command classification.  The factory maps Modify(value) to a Set   *)
(* command holding that value, AddItem(value) to an AddItem command        *)
(* holding that item and RemoveItem(index) to a RemoveItem command with    *)
(* that index and an empty slot, each with the path of the change and the  *)
(* handle it was given; it maps Revert to no command, and nothing else to  *)
(* no command.                                                             *)
(***************************************************************************)
C15_Classification ==
    made # Unmade =>
        LET pc == change.change
            c == made.cmd
            carries == /\ made.state = "Some"
                       /\ c.path = pc.path
                       /\ c.handle = change.handle
                       /\ cmds = <<c>>
        IN  /\ pc.action = "Modify" =>
                  carries /\ c.kind = "Set" /\ c.slot = pc.value
            /\ pc.action = "AddItem" =>
                  carries /\ c.kind = "Add" /\ c.slot = pc.value
            /\ pc.action = "RemoveItem" =>
                  carries /\ c.kind = "Remove" /\ c.index = pc.index
                          /\ c.slot = None
            /\ pc.action = "Revert" => made = NoCommand /\ cmds = << >>
            /\ made.state = "None" => pc.action = "Revert"

\* AddItem(b1) on path "items" for handle h2 gave an AddItem command.
C15_Witness ==
    /\ change = [handle |-> "h2", change |-> PropertyChanged("AddItem", "items", "b1", 0)]
    /\ made.state = "Some"
    /\ made.cmd.kind = "Add"
    /\ made.cmd.handle = "h2"
    /\ made.cmd.slot = "b1"

\* Commands of both entities, in any interleaving.
NextFrame ==
    \/ \E h \in Handles : NewSet(h, "s", "a5")
    \/ \E p \in {"items[0]", "nope"} : NewSet("h1", p, "a5")
    \/ \E h \in Handles : NewAddItem(h, "items", "a4")
    \/ NewAddItem("h1", "items", "b1")
    \/ \E h \in Handles : NewRemoveItem(h, "items", 0)
    \/ NewRemoveItem("h1", "items", 1)
    \/ \E i \in 1..MaxCmds : SetExecute(i)
    \/ \E i \in 1..MaxCmds : SetRevert(i)
    \/ \E i \in 1..MaxCmds : AddItemExecute(i)
    \/ \E i \in 1..MaxCmds : AddItemRevert(i)
    \/ \E i \in 1..MaxCmds : RemoveItemExecute(i)
    \/ \E i \in 1..MaxCmds : RemoveItemRevert(i)

SpecFrame == Init /\ [][NextFrame]_vars

\* Command i is called in this step.
CallOf(i) ==
    /\ Len(cmds') = Len(cmds)
    /\ i \in 1..Len(cmds)
    /\ cmds'[i].next # cmds[i].next

\* Everything of entity `before` that `path` does not address is the same in
\* entity `after`.
SameOutside(path, before, after) ==
    /\ after.elem = before.elem
    /\ path # "s" => after.s = before.s
    /\ path \notin {"items", "items[0]"} => after.items = before.items
    /\ path = "items[0]" =>
          /\ Len(after.items) = Len(before.items)
          /\ \A k \in 2..Len(before.items) : after.items[k] = before.items[k]

(***************************************************************************)
(* C16  Frame condition.  A call of execute or revert on a command changes *)
(* at most the field its path addresses in the entity of its handle: the   *)
(* other fields of that entity, the other entity and the state of every    *)
(* other command are the same after the call as before.                    *)
(***************************************************************************)
C16_Frame ==
    [][\A i \in 1..MaxCmds :
          CallOf(i) =>
              /\ \A j \in 1..Len(cmds) : j # i => cmds'[j] = cmds[j]
              /\ cmds[i].handle = "h1" =>
                    others' = others /\ SameOutside(cmds[i].path, graph, graph')
              /\ cmds[i].handle = "h2" =>
                    graph' = graph /\ SameOutside(cmds[i].path, others, others')]_vars

\* A command of entity h2 has just pushed a4 onto that entity's collection
\* while a command of entity h1 holds the value it swapped out of field "s".
C16_Witness ==
    /\ LastIs("Add", "execute")
    /\ LastCmd.handle = "h2"
    /\ last.outcome = "Ok"
    /\ others.items = <<"a1", "a4">>
    /\ graph.s = "a5"
    /\ \E j \in 1..Len(cmds) :
          cmds[j].handle = "h1" /\ cmds[j].kind = "Set" /\ cmds[j].slot = "a1"

\* The graph changes under the commands: the object behind handle h1 is
\* replaced by one whose collection holds elements of type B.
Retype ==
    /\ ~panicked
    /\ graph.elem = "A"
    /\ graph' = [graph EXCEPT !.elem = "B", !.items = <<"b1">>]
    /\ UNCHANGED <<others, cmds, top, hist, clean, last, panicked, change, made, named, navVars, ragVars>>

\* Collection commands of entity h1 while the graph changes under them.
NextEnv ==
    \/ Retype
    \/ \E v \in AddValues : NewAddItem("h1", "items", v)
    \/ \E n \in 0..MaxIndex : NewRemoveItem("h1", "items", n)
    \/ \E i \in 1..MaxCmds : AddItemExecute(i)
    \/ \E i \in 1..MaxCmds : AddItemRevert(i)
    \/ \E i \in 1..MaxCmds : RemoveItemExecute(i)
    \/ \E i \in 1..MaxCmds : RemoveItemRevert(i)

SpecEnv == Init /\ [][NextEnv]_vars

(***************************************************************************)
(* C13  RemoveItem.revert on a type mismatch.  When the path resolves to a *)
(* collection whose element type is not the type of the captured item,     *)
(* revert logs the insert mismatch, leaves the collection as it was and    *)
(* has the same captured item in the slot afterwards; when revert          *)
(* succeeds the slot is empty afterwards.                                  *)
(***************************************************************************)
C13_RevertTypeMismatch ==
    [][\A i \in 1..MaxCmds :
          (/\ CallOf(i)
           /\ cmds[i].kind = "Remove"
           /\ cmds[i].next = "revert") =>
              /\ (/\ resolve_path_mut(graph, cmds[i].path).list
                  /\ cmds[i].slot # None
                  /\ TypeOf(cmds[i].slot) # graph.elem) =>
                    /\ last'.outcome = "TypeMismatch"
                    /\ last'.log = <<InsertMismatchMsg>>
                    /\ graph' = graph
                    /\ cmds'[i].slot = cmds[i].slot
              /\ last'.outcome = "Ok" => cmds'[i].slot = None]_vars

\* RemoveItem(items, 1) took a2 out of the collection, the collection became
\* one of B elements, and the revert was rejected: a2 is still captured.
C13_Witness ==
    /\ LastIs("Remove", "revert")
    /\ last.outcome = "TypeMismatch"
    /\ last.log = <<InsertMismatchMsg>>
    /\ last.preSlot = "a2"
    /\ LastCmd.slot = "a2"
    /\ graph = [s |-> "a1", items |-> <<"b1">>, elem |-> "B"]

\* Command::name of command i, between any two calls.
Name(i) ==
    /\ ~panicked
    /\ i \in 1..Len(cmds)
    /\ named' = [idx |-> i, text |-> name(cmds[i])]
    /\ UNCHANGED <<graph, others, cmds, top, hist, clean, last, panicked, change, made, navVars, ragVars>>

\* Commands of entity h1 called and asked for their names in any order.
NextName ==
    \/ \E p \in {"s", "nope"} : NewSet("h1", p, "a5")
    \/ NewAddItem("h1", "items", "a4")
    \/ \E n \in 0..MaxIndex : NewRemoveItem("h1", "items", n)
    \/ \E i \in 1..MaxCmds : SetExecute(i)
    \/ \E i \in 1..MaxCmds : SetRevert(i)
    \/ \E i \in 1..MaxCmds : AddItemExecute(i)
    \/ \E i \in 1..MaxCmds : AddItemRevert(i)
    \/ \E i \in 1..MaxCmds : RemoveItemExecute(i)
    \/ \E i \in 1..MaxCmds : RemoveItemRevert(i)
    \/ \E i \in 1..MaxCmds : Name(i)

SpecName == Init /\ [][NextName]_vars

(***************************************************************************)
(* C21  Command naming.  The name of a command is "Set <path> property",   *)
(* "Add item to <path> collection" or "Remove collection <path> item       *)
(* <index>" according to its kind; a call of name() changes neither the    *)
(* graph nor any pending slot; and a call of execute or revert leaves the  *)
(* name of the command what it was.                                        *)
(***************************************************************************)
C21_Naming ==
    /\ [](named.idx # 0 =>
            LET c == cmds[named.idx] IN
            /\ c.kind = "Set" => named.text = <<"Set ", c.path, " property">>
            /\ c.kind = "Add" =>
                  named.text = <<"Add item to ", c.path, " collection">>
            /\ c.kind = "Remove" =>
                  named.text = <<"Remove collection ", c.path, " item ",
                                 ToString(c.index)>>)
    /\ [][/\ named' # named =>
               graph' = graph /\ others' = others /\ cmds' = cmds
           /\ \A i \in 1..MaxCmds :
                 CallOf(i) => name(cmds'[i]) = name(cmds[i])]_vars

\* The Set command on "s" was asked for its name while it held a5 and, after
\* its execute swapped a1 into the slot, was asked again: same name.
C21_Witness ==
    /\ named.idx # 0
    /\ cmds[named.idx].kind = "Set"
    /\ cmds[named.idx].slot = "a1"
    /\ cmds[named.idx].next = "revert"
    /\ graph.s = "a5"
    /\ named.text = <<"Set ", "s", " property">>
    /\ last.idx = named.idx
    /\ \E j \in 1..Len(cmds) :
          cmds[j].kind = "Remove" /\ cmds[j].index = 2

(***************************************************************************)
(* C18  Pending-slot lifecycle of the collection commands.  A command that *)
(* has not been called yet, or whose latest call was a successful revert,  *)
(* has its item pending if it is an AddItem command and an empty slot if   *)
(* it is a RemoveItem command; a command whose latest call was a           *)
(* successful execute has an empty slot if it is an AddItem command and    *)
(* holds an item if it is a RemoveItem command, and right after that       *)
(* execute the item is the one it took out of the collection.              *)
(***************************************************************************)
C18_SlotLifecycle ==
    /\ \A i \in 1..Len(cmds) :
          LET c == cmds[i]
              fresh == c.res = "none"
              reverted == c.res = "Ok" /\ c.next = "execute"
              executed == c.res = "Ok" /\ c.next = "revert"
          IN  /\ (c.kind = "Add" /\ (fresh \/ reverted)) => c.slot # None
              /\ (c.kind = "Add" /\ executed) => c.slot = None
              /\ (c.kind = "Remove" /\ (fresh \/ reverted)) => c.slot = None
              /\ (c.kind = "Remove" /\ executed) => c.slot # None
    /\ (LastIs("Remove", "execute") /\ last.outcome = "Ok")
          => LastCmd.slot = last.preGraph.items[LastCmd.index + 1]

\* Both collection commands have gone through execute and revert, each call
\* succeeding, and the RemoveItem command has just been executed again.
C18_Witness ==
    /\ LastIs("Remove", "execute")
    /\ last.outcome = "Ok"
    /\ last.prev.outcome = "Ok"
    /\ LastCmd.slot = "a2"
    /\ \E i \in 1..Len(cmds) :
          /\ cmds[i].kind = "Add"
          /\ cmds[i].res = "Ok"
          /\ cmds[i].next = "execute"
          /\ cmds[i].slot = "a4"

(***************************************************************************)
(* C19  Paths are resolved afresh on every call.  When the latest call of  *)
(* a Set command failed because its path did not resolve, and the graph    *)
(* has changed since so that the path now resolves to a field that accepts *)
(* the retained value, the next call of the command, execute or revert,    *)
(* succeeds without logging: the field holds the retained value and the    *)
(* slot holds the value the field had just before the call.                *)
(***************************************************************************)
C19_PathResolvedAfresh ==
    (/\ LastIsKind("Set")
     /\ last.was = "InvalidPath"
     /\ Accepts(last.preGraph, LastCmd.path, last.preSlot)) =>
        /\ last.outcome = "Ok"
        /\ last.log = << >>
        /\ ReadField(graph, LastCmd.path) = last.preSlot
        /\ LastCmd.slot = ReadField(last.preGraph, LastCmd.path)
        /\ graph = WriteField(last.preGraph, LastCmd.path, last.preSlot)

\* Set("items[0]", a5) failed on the empty collection, an AddItem command
\* then pushed a4, and the revert of the Set command put a5 in its place.
C19_Witness ==
    /\ LastIs("Set", "revert")
    /\ LastCmd.path = "items[0]"
    /\ last.was = "InvalidPath"
    /\ last.preGraph.items = <<"a4">>
    /\ last.preSlot = "a5"
    /\ graph.items = <<"a5">>
    /\ LastCmd.slot = "a4"

\* The values path `path` addresses in entity g: the field, the collection's
\* items, or nothing when the path does not resolve.
Target(g, path) ==
    CASE path = "s" -> <<g.s>>
      [] path = "items" -> g.items
      [] path = "items[0]" -> IF Len(g.items) > 0 THEN <<g.items[1]>> ELSE << >>
      [] OTHER -> << >>

\* How many times value v is held by the target of `path` in g and by `slot`.
Held(g, path, slot, v) ==
    Cardinality({k \in DOMAIN Target(g, path) : Target(g, path)[k] = v})
        + (IF slot = v THEN 1 ELSE 0)

(***************************************************************************)
(* C22  Value conservation.  Every call of execute or revert, successful   *)
(* or not, leaves the multiset of the values held by the targeted field or *)
(* collection and by the pending slot of the command what it was before    *)
(* the call, hence what it was right after construction when no other      *)
(* command ran.                                                            *)
(***************************************************************************)
C22_ValueConservation ==
    last.idx # 0 =>
        \A v \in Values :
            Held(graph, LastCmd.path, LastCmd.slot, v)
                = Held(last.preGraph, LastCmd.path, last.preSlot, v)

(***************************************************************************)
(* C23  A failed execute is undone by a no-op.  When execute failed and    *)
(* left the graph unchanged, and the next call is the revert of the same   *)
(* command, that revert returns, leaves the graph unchanged and leaves in  *)
(* the slot what was there before the execute.                             *)
(***************************************************************************)
C23_FailedExecuteUndoneByNoop ==
    (/\ last.idx # 0
     /\ last.op = "revert"
     /\ Consecutive
     /\ last.prev.outcome # "Ok"
     /\ last.preGraph = last.prev.preGraph) =>
        /\ last.outcome # "Panic"
        /\ graph = last.preGraph
        /\ LastCmd.slot = last.prev.preSlot

\* CommandGroup: the commands of the list run as one undo unit.  Run(op,
\* order, cs, g) calls `op` on the commands of cs at the positions listed in
\* `order`, one after the other, and stops at a panic.
RECURSIVE Run(_, _, _, _)
Run(op, order, cs, g) ==
    IF order = << >> THEN [graph |-> g, cmds |-> cs, outcome |-> "Ok"]
    ELSE LET i == Head(order)
             r == IF op = "execute" THEN execute(cs[i], g) ELSE revert(cs[i], g)
             done == [cs EXCEPT ![i].slot = r.slot, ![i].next = Other(op),
                                ![i].res = r.outcome]
         IN  IF r.outcome = "Panic"
             THEN [graph |-> r.graph, cmds |-> done, outcome |-> "Panic"]
             ELSE Run(op, Tail(order), done, r.graph)

Forward(n) == [k \in 1..n |-> k]
Backward(n) == [k \in 1..n |-> n + 1 - k]

\* The state left by the group running `op` over its commands in `order`.
GroupCalled(op, order) ==
    LET r == Run(op, order, cmds, graph) IN
    /\ graph' = r.graph
    /\ cmds' = r.cmds
    /\ panicked' = (r.outcome = "Panic")
    /\ last' = [NoCall EXCEPT !.op = op, !.outcome = r.outcome, !.preGraph = graph]
    /\ UNCHANGED <<others, top, hist, clean, change, made, named, navVars, ragVars>>

\* CommandGroup::execute: the commands in list order.
CommandGroup_execute ==
    /\ ~panicked
    /\ Len(cmds) > 0
    /\ \A i \in 1..Len(cmds) : cmds[i].next = "execute"
    /\ GroupCalled("execute", Forward(Len(cmds)))

\* CommandGroup::revert: the commands in reverse list order.
CommandGroup_revert ==
    /\ ~panicked
    /\ Len(cmds) > 0
    /\ \A i \in 1..Len(cmds) : cmds[i].next = "revert"
    /\ GroupCalled("revert", Backward(Len(cmds)))

\* A group of commands on entity h1 is put together, then executed and
\* reverted as a whole.
NextGroup ==
    \/ NewSet("h1", "s", "a5")
    \/ \E v \in AddValues : NewAddItem("h1", "items", v)
    \/ \E n \in 0..MaxIndex : NewRemoveItem("h1", "items", n)
    \/ CommandGroup_execute
    \/ CommandGroup_revert

SpecGroup == Init /\ [][NextGroup]_vars

(***************************************************************************)
(* C24  Grouped removals are order-independent.  After a group made of     *)
(* RemoveItem commands on the same collection, with distinct indices that  *)
(* were all in range before the group ran, has executed, each command      *)
(* holds the item that stood at its index before the group ran, whatever   *)
(* the order of the indices in the list.                                   *)
(***************************************************************************)
C24_GroupedRemovalsOrderIndependent ==
    (/\ last.op = "execute"
     /\ last.idx = 0
     /\ Len(cmds) > 1
     /\ \A i \in 1..Len(cmds) :
           /\ cmds[i].kind = "Remove"
           /\ cmds[i].path = "items"
           /\ cmds[i].index < Len(last.preGraph.items)
     /\ \A i, j \in 1..Len(cmds) : i # j => cmds[i].index # cmds[j].index) =>
        \A i \in 1..Len(cmds) :
            cmds[i].slot = last.preGraph.items[cmds[i].index + 1]

(***************************************************************************)
(* EditNavmeshMode and NavmeshPanel: the handlers.                         *)
(***************************************************************************)
\* What the picking ray of a mouse-down hits first: nothing, a vertex, or an
\* edge of the triangle.
Hits == {<< >>, <<Vertex(0)>>, <<Edge(0, 1)>>}
Picks == Planes \cup {"none"}
Keys == {"Delete", "A", "Other"}

\* NavmeshSelection::add for each entity hit.
AddAll(sel, hit) == Navmesh(sel.entities \o hit)

\* on_left_mouse_button_down: a pick of the move gizmo starts a drag, any
\* other click selects what the ray hits.
on_left_mouse_button_down(pick, shift, hit) ==
    /\ ~ev.panic
    /\ ~pressed
    /\ pressed' = TRUE
    /\ ev' = [Event("on_left_mouse_button_down", shift, 0, "none", FALSE)
                 EXCEPT !.pick = pick]
    /\ IF pick # "none"
       THEN IF navmesh_present
            THEN /\ plane_kind' = pick
                 /\ drag_context' = MoveSelection(vertices)
                 /\ discarded' = 0
                 /\ drag_start' = vertices
                 /\ sent' = << >>
            ELSE /\ sent' = << >>
                 /\ UNCHANGED <<plane_kind, drag_context, discarded, drag_start>>
       ELSE IF navmesh_present
            THEN LET base == IF shift /\ selection.nav
                             THEN selection
                             ELSE NavmeshSelection_empty
                     new_selection == AddAll(base, hit)
                 IN  /\ sent' = IF new_selection # selection
                                THEN <<ChangeSelectionCommand(new_selection, selection)>>
                                ELSE << >>
                     /\ UNCHANGED <<plane_kind, drag_context, discarded, drag_start>>
            ELSE /\ sent' = << >>
                 /\ UNCHANGED <<plane_kind, drag_context, discarded, drag_start>>
    /\ UNCHANGED <<navmesh_present, vertices, selection, cmdVars, ragVars>>

\* MoveSelection commit with the current position as the old position.
MoveCommands_OldIsCurrent(initial_positions) ==
    IF selection.nav
    THEN LET uv == unique_vertices(selection) IN
         [k \in 1..Len(uv) |->
             MoveNavmeshVertexCommand(uv[k], vertices[uv[k]], vertices[uv[k]])]
    ELSE << >>

\* The commands of a MoveSelection commit, one per unique selected vertex.
MoveCommands(initial_positions) ==
    IF selection.nav
    THEN LET uv == unique_vertices(selection) IN
         [k \in 1..Len(uv) |->
             MoveNavmeshVertexCommand(uv[k], initial_positions[uv[k]],
                                      vertices[uv[k]])]
    ELSE << >>

\* on_left_mouse_button_up with the drag kept when the commit is sent.
on_left_mouse_button_up_KeepsDrag ==
    /\ ~ev.panic
    /\ pressed
    /\ pressed' = FALSE
    /\ IF navmesh_present /\ drag_context # NoDrag
       THEN IF drag_context.kind = "MoveSelection"
            THEN IF selection.nav
                    /\ ~(UniqueSet(selection) \subseteq DOMAIN drag_context.initial_positions)
                 THEN /\ drag_context' = NoDrag
                      /\ sent' = << >>
                      /\ ev' = [Event("on_left_mouse_button_up", FALSE, 0, "none", FALSE)
                                   EXCEPT !.panic = TRUE]
                 ELSE /\ drag_context' = drag_context
                      /\ sent' = <<CommandGroup(MoveCommands(drag_context.initial_positions))>>
                      /\ ev' = Event("on_left_mouse_button_up", FALSE, 0, "none", FALSE)
            ELSE /\ drag_context' = NoDrag
                 /\ sent' = <<CommandGroup(<<AddNavmeshEdgeCommand(
                                   drag_context.vertices[1], drag_context.vertices[2],
                                   drag_context.opposite_edge, TRUE)>>)>>
                 /\ ev' = Event("on_left_mouse_button_up", FALSE, 0, "none", FALSE)
       ELSE /\ sent' = << >>
            /\ ev' = Event("on_left_mouse_button_up", FALSE, 0, "none", FALSE)
            /\ UNCHANGED drag_context
    /\ drag_start' = IF drag_context' = NoDrag THEN NoStart ELSE drag_start
    /\ UNCHANGED <<navmesh_present, vertices, selection, plane_kind, discarded, cmdVars, ragVars>>

\* on_left_mouse_button_up: commit the drag as one command group.
on_left_mouse_button_up ==
    /\ ~ev.panic
    /\ pressed
    /\ pressed' = FALSE
    /\ IF navmesh_present /\ drag_context # NoDrag
       THEN IF drag_context.kind = "MoveSelection"
            THEN IF selection.nav
                    /\ ~(UniqueSet(selection) \subseteq DOMAIN drag_context.initial_positions)
                 THEN \* initial_positions.get(vertex).unwrap() on None
                      /\ drag_context' = NoDrag
                      /\ sent' = << >>
                      /\ ev' = [Event("on_left_mouse_button_up", FALSE, 0, "none", FALSE)
                                   EXCEPT !.panic = TRUE]
                 ELSE /\ drag_context' = NoDrag
                      /\ sent' = <<CommandGroup(MoveCommands(drag_context.initial_positions))>>
                      /\ ev' = Event("on_left_mouse_button_up", FALSE, 0, "none", FALSE)
            ELSE /\ drag_context' = NoDrag
                 /\ sent' = <<CommandGroup(<<AddNavmeshEdgeCommand(
                                   drag_context.vertices[1], drag_context.vertices[2],
                                   drag_context.opposite_edge, TRUE)>>)>>
                 /\ ev' = Event("on_left_mouse_button_up", FALSE, 0, "none", FALSE)
       ELSE /\ sent' = << >>
            /\ ev' = Event("on_left_mouse_button_up", FALSE, 0, "none", FALSE)
            /\ UNCHANGED drag_context
    /\ drag_start' = IF drag_context' = NoDrag THEN NoStart ELSE drag_start
    /\ UNCHANGED <<navmesh_present, vertices, selection, plane_kind, discarded, cmdVars, ragVars>>

\* The selection is exactly one edge.
SingleEdge(sel) ==
    /\ sel.nav
    /\ Len(sel.entities) = 1
    /\ sel.entities[1].kind = "Edge"

\* The switch to edge duplication without the is_edge_duplication() test.
EntersEdgeDuplication_Again(shift) ==
    /\ SingleEdge(selection)
    /\ shift

\* Holding Shift while dragging a single edge enters edge duplication.
EntersEdgeDuplication(shift) ==
    /\ SingleEdge(selection)
    /\ shift
    /\ ~is_edge_duplication(drag_context)

\* MoveSelection move that drags every vertex of the navmesh.
Dragged_All(offset) ==
    [v \in Vertices |->
        IF selection.nav THEN vertices[v] + offset ELSE vertices[v]]

\* The vertices after a MoveSelection move by `offset`.
Dragged(offset) ==
    [v \in Vertices |->
        IF selection.nav /\ v \in UniqueSet(selection)
        THEN vertices[v] + offset
        ELSE vertices[v]]

\* on_mouse_move that goes on without an active drag and treats the missing
\* drag as a MoveSelection.
on_mouse_move_NoEarlyReturn(offset, shift) ==
    /\ ~ev.panic
    /\ ev' = Event("on_mouse_move", shift, offset, "none", FALSE)
    /\ IF ~navmesh_present
       THEN /\ sent' = << >>
            /\ UNCHANGED <<vertices, drag_context, discarded>>
       ELSE LET switch == EntersEdgeDuplication(shift)
                edge == selection.entities[1]
                dc == IF switch
                      THEN EdgeDuplication(<<vertices[edge.a], vertices[edge.b]>>, edge)
                      ELSE drag_context
            IN  /\ sent' = IF switch
                           THEN <<ChangeSelectionCommand(NavmeshSelection_empty,
                                                         selection)>>
                           ELSE << >>
                /\ discarded' = IF switch THEN discarded + 1 ELSE discarded
                /\ IF dc.kind # "EdgeDuplication"
                   THEN /\ drag_context' = dc
                        /\ vertices' = Dragged(offset)
                   ELSE /\ drag_context' =
                              [dc EXCEPT !.vertices =
                                  <<dc.vertices[1] + offset, dc.vertices[2] + offset>>]
                        /\ vertices' = vertices
    /\ \A v \in Vertices : vertices'[v] \in Positions
    /\ \A k \in DOMAIN drag_context'.vertices : drag_context'.vertices[k] \in Positions
    /\ UNCHANGED <<navmesh_present, selection, plane_kind, pressed, drag_start, cmdVars, ragVars>>

\* on_mouse_move: drag the selected vertices, or the draft edge once Shift
\* turned the drag of a single edge into an edge duplication.
on_mouse_move(offset, shift) ==
    /\ ~ev.panic
    /\ ev' = Event("on_mouse_move", shift, offset, "none", FALSE)
    /\ IF drag_context = NoDrag \/ ~navmesh_present
       THEN /\ sent' = << >>
            /\ UNCHANGED <<vertices, drag_context, discarded>>
       ELSE LET switch == EntersEdgeDuplication(shift)
                edge == selection.entities[1]
                dc == IF switch
                      THEN EdgeDuplication(<<vertices[edge.a], vertices[edge.b]>>, edge)
                      ELSE drag_context
            IN  /\ sent' = IF switch
                           THEN <<ChangeSelectionCommand(NavmeshSelection_empty,
                                                         selection)>>
                           ELSE << >>
                /\ discarded' = IF switch THEN discarded + 1 ELSE discarded
                /\ IF dc.kind = "MoveSelection"
                   THEN /\ drag_context' = dc
                        /\ vertices' = Dragged(offset)
                   ELSE /\ drag_context' =
                              [dc EXCEPT !.vertices =
                                  <<dc.vertices[1] + offset, dc.vertices[2] + offset>>]
                        /\ vertices' = vertices
    /\ \A v \in Vertices : vertices'[v] \in Positions
    /\ \A k \in DOMAIN drag_context'.vertices : drag_context'.vertices[k] \in Positions
    /\ UNCHANGED <<navmesh_present, selection, plane_kind, pressed, drag_start, cmdVars, ragVars>>

\* Delete commands that leave the deleted vertices selected.
DeleteCommands_KeepsSelection ==
    LET uv == unique_vertices(selection) IN
    [k \in 1..Len(uv) |-> DeleteNavmeshVertexCommand(uv[k])]

\* The commands of a Delete: one per unique selected vertex, then the change
\* to the empty selection.
DeleteCommands ==
    LET uv == unique_vertices(selection) IN
    [k \in 1..Len(uv) |-> DeleteNavmeshVertexCommand(uv[k])]
        \o <<ChangeSelectionCommand(NavmeshSelection_empty, selection)>>

\* on_key_down: Delete removes the selected vertices, Ctrl+A selects every
\* vertex; the result says whether the key was handled.
on_key_down(key, control) ==
    /\ ~ev.panic
    /\ IF key = "Delete"
       THEN /\ ev' = Event("on_key_down", FALSE, 0, key, TRUE)
            /\ sent' = IF navmesh_present /\ selection.nav /\ selection.entities # << >>
                       THEN <<CommandGroup(DeleteCommands)>>
                       ELSE << >>
       ELSE IF key = "A" /\ control
       THEN /\ ev' = Event("on_key_down", FALSE, 0, "Ctrl+A", TRUE)
            /\ sent' = IF navmesh_present
                       THEN <<ChangeSelectionCommand(
                                 Navmesh([k \in 1..Cardinality(Vertices) |-> Vertex(k - 1)]),
                                 selection)>>
                       ELSE << >>
       ELSE /\ ev' = Event("on_key_down", FALSE, 0, key, FALSE)
            /\ sent' = << >>
    /\ UNCHANGED <<navmesh_present, vertices, selection, drag_context, plane_kind,
                   pressed, discarded, drag_start, cmdVars, ragVars>>

\* The edges among the selected entities, in selection order.
RECURSIVE SelectedEdges(_)
SelectedEdges(entities) ==
    IF entities = << >> THEN << >>
    ELSE (IF Head(entities).kind = "Edge" THEN <<Head(entities)>> ELSE << >>)
             \o SelectedEdges(Tail(entities))

\* NavmeshPanel::handle_message: a click on the Connect button connects the
\* first two selected edges.
NavmeshPanel_handle_message(destination) ==
    /\ ~ev.panic
    /\ IF destination = "connect" /\ selection.nav
       THEN LET edges == SelectedEdges(selection.entities) IN
            IF Len(edges) < 2
            THEN \* vertices[0] / vertices[1]: index out of bounds
                 /\ sent' = << >>
                 /\ ev' = [Event("handle_message", FALSE, 0, destination, FALSE)
                              EXCEPT !.panic = TRUE]
            ELSE /\ sent' = <<ConnectNavmeshEdgesCommand(edges[1], edges[2])>>
                 /\ ev' = Event("handle_message", FALSE, 0, destination, FALSE)
       ELSE /\ sent' = << >>
            /\ ev' = Event("handle_message", FALSE, 0, destination, FALSE)
    /\ UNCHANGED <<navmesh_present, vertices, selection, drag_context, plane_kind,
                   pressed, discarded, drag_start, cmdVars, ragVars>>

\* The dispatcher executes a selection change, or the user selects something
\* in another part of the editor.
SelectionChanged(sel) ==
    /\ ~ev.panic
    /\ sel # selection
    /\ selection' = sel
    /\ UNCHANGED <<navmesh_present, vertices, drag_context, plane_kind, pressed,
                   sent, ev, discarded, drag_start, cmdVars, ragVars>>

\* The navmesh node is deleted from the graph, or comes back by an undo.
NavmeshRemoved ==
    /\ ~ev.panic
    /\ navmesh_present
    /\ navmesh_present' = FALSE
    /\ UNCHANGED <<vertices, selection, drag_context, plane_kind, pressed,
                   sent, ev, discarded, drag_start, cmdVars, ragVars>>

NavmeshRestored ==
    /\ ~ev.panic
    /\ ~navmesh_present
    /\ navmesh_present' = TRUE
    /\ UNCHANGED <<vertices, selection, drag_context, plane_kind, pressed,
                   sent, ev, discarded, drag_start, cmdVars, ragVars>>

NextNav ==
    \/ \E pick \in Picks, shift \in BOOLEAN, hit \in Hits :
          on_left_mouse_button_down(pick, shift, hit)
    \/ on_left_mouse_button_up
    \/ \E offset \in Offsets, shift \in BOOLEAN : on_mouse_move(offset, shift)
    \/ \E key \in Keys, control \in BOOLEAN : on_key_down(key, control)
    \/ \E destination \in {"connect", "other"} : NavmeshPanel_handle_message(destination)
    \/ \E sel \in Selections : SelectionChanged(sel)
    \/ NavmeshRemoved
    \/ NavmeshRestored

\* The editing mode under the events of the user interface, while the
\* dispatcher and the rest of the editor change the selection and the graph.
InitNav == Init /\ graph.items = << >>

SpecNav == InitNav /\ [][NextNav]_vars

\* This step is a call of handler h: the steps of the rest of the editor
\* change the selection or the presence of the navmesh, a handler neither.
HandlerStep(h) ==
    /\ ev'.handler = h
    /\ selection' = selection
    /\ navmesh_present' = navmesh_present

\* The commands of the command group that was sent alone.
SentGroup(msgs) == msgs[1].commands

OneGroup(msgs) == Len(msgs) = 1 /\ msgs[1].type = "CommandGroup"

C26_NoDragAfterMouseUp ==
    [][HandlerStep("on_left_mouse_button_up") => drag_context' = NoDrag]_vars

(***************************************************************************)
(* C27  Every direct edit of the navmesh made during a drag is undoable.   *)
(* At the mouse-up that ends a drag, the command group sent holds, for     *)
(* each vertex whose position is not the one it had at the mouse-down that *)
(* began the drag, a MoveNavmeshVertexCommand for that vertex whose old    *)
(* position is the one at that mouse-down.                                 *)
(***************************************************************************)
C27_DragEditsUndoable ==
    [][(/\ HandlerStep("on_left_mouse_button_up")
        /\ drag_context # NoDrag
        /\ navmesh_present) =>
          \A v \in Vertices :
              vertices[v] # drag_start[v] =>
                  /\ OneGroup(sent')
                  /\ \E k \in DOMAIN SentGroup(sent') :
                        /\ SentGroup(sent')[k].type = "MoveNavmeshVertexCommand"
                        /\ SentGroup(sent')[k].vertex = v
                        /\ SentGroup(sent')[k].old = drag_start[v]]_vars

C29_EdgeDuplicationEntry ==
    /\ [](/\ drag_context.kind = "EdgeDuplication" => discarded = 1
          /\ drag_context.kind = "MoveSelection" => discarded = 0)
    /\ [][/\ (drag_context'.kind = "EdgeDuplication"
                  /\ drag_context.kind # "EdgeDuplication") =>
                 /\ drag_context.kind = "MoveSelection"
                 /\ HandlerStep("on_mouse_move")
                 /\ ev'.shift
                 /\ SingleEdge(selection)
                 /\ sent' = <<ChangeSelectionCommand(NavmeshSelection_empty, selection)>>
                 /\ drag_context'.opposite_edge = selection.entities[1]
                 /\ drag_context'.vertices =
                       <<vertices[selection.entities[1].a] + ev'.offset,
                         vertices[selection.entities[1].b] + ev'.offset>>
          /\ (drag_context.kind = "EdgeDuplication"
                  /\ drag_context'.kind = "MoveSelection") =>
                 HandlerStep("on_left_mouse_button_down")
          /\ (HandlerStep("on_mouse_move") /\ drag_context.kind = "EdgeDuplication") =>
                 sent' = << >>]_vars

\* The drag of edge (0, 1) became an edge duplication and has been dragged
\* further with Shift still held and the edge still selected.
C29_Witness ==
    /\ ev.handler = "on_mouse_move"
    /\ ev.shift
    /\ ev.offset = 1
    /\ selection = Navmesh(<<Edge(0, 1)>>)
    /\ drag_context = EdgeDuplication(<<1, 1>>, Edge(0, 1))
    /\ sent = << >>
    /\ discarded = 1

(***************************************************************************)
(* C30  Frame of a mouse move during a drag.  When the drag is an edge     *)
(* duplication, a mouse move leaves every navmesh vertex unchanged and,    *)
(* while the navmesh exists, adds the offset to the two draft vertices.    *)
(* When the drag is a MoveSelection, a mouse move changes no vertex other  *)
(* than the unique selected ones and, while the navmesh exists, adds the   *)
(* offset to each of those.  The kind of the drag is the one the move      *)
(* leaves it with.                                                         *)
(***************************************************************************)
C30_MouseMoveFrame ==
    [][HandlerStep("on_mouse_move") =>
          /\ drag_context'.kind = "EdgeDuplication" =>
                /\ vertices' = vertices
                /\ (navmesh_present =>
                      LET before == IF drag_context.kind = "EdgeDuplication"
                                    THEN drag_context.vertices
                                    ELSE <<vertices[selection.entities[1].a],
                                           vertices[selection.entities[1].b]>>
                      IN  drag_context'.vertices =
                              <<before[1] + ev'.offset, before[2] + ev'.offset>>)
                /\ (~navmesh_present => drag_context' = drag_context)
          /\ drag_context'.kind = "MoveSelection" =>
                LET sel == IF selection.nav THEN UniqueSet(selection) ELSE {} IN
                /\ drag_context' = drag_context
                /\ \A v \in Vertices \ sel : vertices'[v] = vertices[v]
                /\ (navmesh_present =>
                      \A v \in sel : vertices'[v] = vertices[v] + ev'.offset)
                /\ (~navmesh_present => vertices' = vertices)]_vars

\* A MoveSelection move has just dragged vertices 0 and 1 of the selected
\* edge by one step and left vertex 2 where it was.
C30_Witness ==
    /\ ev.handler = "on_mouse_move"
    /\ ev.offset = 1
    /\ drag_context.kind = "MoveSelection"
    /\ selection = Navmesh(<<Edge(0, 1)>>)
    /\ drag_start = [v \in Vertices |-> 0]
    /\ vertices = [v \in Vertices |-> IF v = 2 THEN 0 ELSE 1]

\* A drag moved vertices 0 and 1, became an edge duplication, and its
\* commit has no command for the two vertices: the edge is still selected.
ShiftLeavesEditUncommitted ==
    /\ ev.handler = "on_left_mouse_button_up"
    /\ selection = Navmesh(<<Edge(0, 1)>>)
    /\ vertices = [v \in Vertices |-> IF v = 2 THEN 0 ELSE 1]
    /\ sent = <<CommandGroup(<<AddNavmeshEdgeCommand(1, 1, Edge(0, 1), TRUE)>>)>>

(***************************************************************************)
(* C31  A mouse move that arrives while no drag is active has no effect:   *)
(* it changes no navmesh vertex, leaves the drag state as it is and sends  *)
(* no message, whatever the selection, the Shift key and the offset.       *)
(***************************************************************************)
C31_MouseMoveWithoutDrag ==
    [][HandlerStep("on_mouse_move") /\ drag_context = NoDrag =>
          /\ vertices' = vertices
          /\ drag_context' = NoDrag
          /\ sent' = << >>
          /\ ~ev'.panic]_vars

\* A move with Shift held and a non-zero offset arrived while a single edge
\* was selected, the navmesh existed and no drag was active.
C31_Witness ==
    /\ ev.handler = "on_mouse_move"
    /\ ev.shift
    /\ ev.offset = 1
    /\ drag_context = NoDrag
    /\ navmesh_present
    /\ selection = Navmesh(<<Edge(0, 1)>>)
    /\ sent = << >>

(***************************************************************************)
(* C32  Delete key.  With the navmesh present and a non-empty navmesh      *)
(* selection exactly one command group is sent: one                        *)
(* DeleteNavmeshVertexCommand per unique selected vertex and then, as its  *)
(* last element, a ChangeSelectionCommand from the current selection to    *)
(* the empty selection.  With an empty selection or no navmesh nothing is  *)
(* sent.  Delete and Ctrl+A are reported handled in all cases; every other *)
(* key is reported unhandled and sends nothing.                            *)
(***************************************************************************)
C32_KeyDown ==
    [][HandlerStep("on_key_down") =>
          /\ ev'.key = "Delete" =>
                /\ ev'.handled
                /\ IF navmesh_present /\ selection.nav /\ selection.entities # << >>
                   THEN /\ OneGroup(sent')
                        /\ LET commands == SentGroup(sent')
                               n == Len(commands)
                           IN  /\ n = Cardinality(UniqueSet(selection)) + 1
                               /\ commands[n] =
                                     ChangeSelectionCommand(NavmeshSelection_empty,
                                                            selection)
                               /\ \A k \in 1..(n - 1) :
                                     commands[k].type = "DeleteNavmeshVertexCommand"
                               /\ {commands[k].vertex : k \in 1..(n - 1)} =
                                     UniqueSet(selection)
                   ELSE sent' = << >>
          /\ ev'.key = "Ctrl+A" => ev'.handled
          /\ ev'.key \notin {"Delete", "Ctrl+A"} =>
                /\ ~ev'.handled
                /\ sent' = << >>]_vars

\* Delete was pressed with an edge and a vertex selected: the group deletes
\* the three vertices and then empties the selection.
C32_Witness ==
    /\ ev.handler = "on_key_down"
    /\ ev.key = "Delete"
    /\ ev.handled
    /\ selection = Navmesh(<<Edge(0, 1), Vertex(2)>>)
    /\ OneGroup(sent)
    /\ Len(SentGroup(sent)) = 4
    /\ SentGroup(sent)[4] = ChangeSelectionCommand(NavmeshSelection_empty, selection)

(***************************************************************************)
(* C33  A click on the Connect button never panics: a                      *)
(* ConnectNavmeshEdgesCommand built from the first two selected edges is   *)
(* sent only when the navmesh selection holds at least two edges, and for  *)
(* any other selection (none, vertices only, a single edge) the click      *)
(* sends nothing.                                                          *)
(***************************************************************************)
C33_ConnectNeverPanics ==
    /\ [](ev.handler = "handle_message" => ~ev.panic)
    /\ [][HandlerStep("handle_message") =>
            LET edges == IF selection.nav THEN SelectedEdges(selection.entities)
                         ELSE << >>
            IN  IF ev'.key = "connect" /\ Len(edges) >= 2
                THEN sent' = <<ConnectNavmeshEdgesCommand(edges[1], edges[2])>>
                ELSE sent' = << >>]_vars

(***************************************************************************)
(* The ragdoll wizard under the messages of the user interface.            *)
(***************************************************************************)

\* The UI messages the wizard is given; `ui` is the message the wizard sends
\* to the user interface in answer.
UiMessage(data, destination, field, value) ==
    [data |-> data, destination |-> destination, field |-> field, value |-> value,
     ui |-> "none"]

EditedFields == {"Hips", "LeftHand"}
EditedValues == {NONE, BoneHandle("Hips"), BoneHandle("Head")}

UiMessages ==
    {UiMessage("Click", d, "Hips", NONE) : d \in {"ok", "cancel", "autofill", "other"}}
        \cup {UiMessage("PropertyChanged", d, f, v) :
                  d \in {"inspector", "other"}, f \in EditedFields, v \in EditedValues}
        \cup {UiMessage("other", "other", "Hips", NONE)}

\* The preset the Autofill button makes from the names of the graph's nodes.
Autofilled(g) == [b \in BoneNames |-> find_by_pattern(g, b)]

\* RagdollWizard::handle_ui_message.
RagdollWizard_handle_ui_message(message) ==
    /\ IF message.data = "PropertyChanged"
       THEN /\ preset' = IF message.destination = "inspector"
                         THEN [preset EXCEPT ![message.field] = message.value]
                         ELSE preset
            /\ rag_ev' = message
            /\ rag_sent' = << >>
            /\ rag_built' = {}
            /\ scene' = scene
       ELSE IF message.data = "Click" /\ message.destination = "ok"
       THEN \E done \in {create_and_send_command(preset, scene, selection)} :
                /\ scene' = done.graph
                /\ rag_sent' = done.sent
                /\ rag_built' = done.built
                /\ rag_ev' = [message EXCEPT !.ui = "close"]
                /\ preset' = preset
       ELSE IF message.data = "Click" /\ message.destination = "cancel"
       THEN /\ rag_ev' = [message EXCEPT !.ui = "close"]
            /\ rag_sent' = << >>
            /\ rag_built' = {}
            /\ UNCHANGED <<scene, preset>>
       ELSE IF message.data = "Click" /\ message.destination = "autofill"
       THEN /\ preset' = Autofilled(scene)
            /\ rag_ev' = [message EXCEPT !.ui = "sync"]
            /\ rag_sent' = << >>
            /\ rag_built' = {}
            /\ scene' = scene
       ELSE /\ rag_ev' = message
            /\ rag_sent' = << >>
            /\ rag_built' = {}
            /\ UNCHANGED <<scene, preset>>
    /\ UNCHANGED <<cmdVars, navVars>>

\* The rest of the editor, after the dispatcher received the wizard's
\* messages: a bone leaves the scene, comes back, or the selection changes.
BoneRemoved(b) ==
    /\ try_get(scene, BoneHandle(b))
    /\ scene' = [h \in DOMAIN scene \ {BoneHandle(b)} |-> scene[h]]
    /\ rag_sent' = << >>
    /\ rag_built' = {}
    /\ rag_ev' = NoMessage
    /\ UNCHANGED <<preset, cmdVars, navVars>>

BoneRestored(b) ==
    /\ ~try_get(scene, BoneHandle(b))
    /\ scene' = scene @@ (BoneHandle(b) :> SceneNode(b, scene_content_root))
    /\ rag_sent' = << >>
    /\ rag_built' = {}
    /\ rag_ev' = NoMessage
    /\ UNCHANGED <<preset, cmdVars, navVars>>

Selected(sel) ==
    /\ sel # selection
    /\ selection' = sel
    /\ rag_sent' = << >>
    /\ rag_built' = {}
    /\ rag_ev' = NoMessage
    /\ UNCHANGED <<scene, preset, navmesh_present, vertices, drag_context, plane_kind,
                   pressed, sent, ev, discarded, drag_start, cmdVars>>

NextRagdoll ==
    \/ \E message \in UiMessages : RagdollWizard_handle_ui_message(message)
    \/ \E b \in Removable : BoneRemoved(b)
    \/ \E b \in Removable : BoneRestored(b)
    \/ \E sel \in {NotNavmesh, Navmesh(<<Vertex(0)>>)} : Selected(sel)

SpecRagdoll == InitNav /\ [][NextRagdoll]_vars

\* The wizard handled a click on the button `destination`.
ClickStep(destination) ==
    /\ rag_ev'.data = "Click"
    /\ rag_ev'.destination = destination

(***************************************************************************)
(* C34  Ragdoll generation modifies the scene only through a command:      *)
(* when create_and_send_command returns, the scene graph holds none of the *)
(* ragdoll nodes it built (they were extracted into a sub-graph) and is    *)
(* what it was before the call, and exactly one message has been sent, the *)
(* command group named "Generate Ragdoll" holding an AddModelCommand with  *)
(* that sub-graph and then a ChangeSelectionCommand that selects the       *)
(* ragdoll.                                                                *)
(***************************************************************************)
C34_RagdollThroughCommand ==
    [][ClickStep("ok") =>
          /\ scene' = scene
          /\ rag_built' # {}
          /\ rag_built' \cap DOMAIN scene' = {}
          /\ Len(rag_sent') = 1
          /\ LET group == rag_sent'[1]
                 sub_graph == group.commands[1].sub_graph
             IN  /\ group.type = "CommandGroup"
                 /\ group.name = "Generate Ragdoll"
                 /\ Len(group.commands) = 2
                 /\ group.commands[1].type = "AddModelCommand"
                 /\ DOMAIN sub_graph.nodes = rag_built'
                 /\ sub_graph.nodes[sub_graph.root].name = "Ragdoll"
                 /\ group.commands[2] =
                       ChangeSelectionCommand(
                           GraphSelection_single_or_empty(sub_graph.root), selection)]_vars

\* Ok was clicked with a preset whose hips bone had left the scene: the
\* ragdoll was built without hips, with bodies and joints for other bones.
C34_Witness ==
    /\ rag_ev.data = "Click"
    /\ rag_ev.destination = "ok"
    /\ preset["Hips"] = BoneHandle("Hips")
    /\ ~try_get(scene, BoneHandle("Hips"))
    /\ preset["Head"] = BoneHandle("Head")
    /\ Len(rag_sent) = 1
    /\ Cardinality(rag_built) > 20
    /\ rag_built \cap DOMAIN scene = {}

====
